---- MODULE Spec2Model ----
(***************************************************************************)
(* netwatch: the access-provisioning and cleanup state machine.            *)
(*                                                                         *)
(* The cluster is the set of Service, Access, ExternalAccess and           *)
(* AccessRequest objects held by the API server.  The web backend's        *)
(* command handlers (internal/handlers/websocket_commands.go) and the      *)
(* cleanup reconciler (internal/controller/cleanup_controller.go) act on   *)
(* it through the API server, whose create/delete/finalizer semantics are  *)
(* the operators K8s... below.  Every API call of a handler may fail; the  *)
(* failing call is an input of the action ("fault plan").                  *)
(***************************************************************************)
EXTENDS Naturals, Sequences, FiniteSets, TLC

VARIABLES
    services,     \* Service objects: originals and clones
    accesses,     \* maxtac Access objects
    extaccesses,  \* maxtac ExternalAccess objects
    requests,     \* netwatch AccessRequest objects
    usedIds,      \* uuids already drawn by uuid.New()
    hist,         \* history: per correlation id, what commands did under it
    last,         \* the command, pass or query that just ran, and its report
    approvals,    \* approveAccessRequest commands running call by call, per session
    listing       \* the GET /pending-requests in flight: its workers and results channel

vars == <<services, accesses, extaccesses, requests, usedIds, hist, last, approvals, listing>>

----------------------------------------------------------------------------
(* Bounds of the model *)

\* number of uuids uuid.New() can hand out in one behaviour
MaxIds == 2

\* number of submitAccessRequest commands that reach the API server in one behaviour
MaxRequests == 1

----------------------------------------------------------------------------
(* Strings.  A "namespace/name" reference is held as its "/"-separated     *)
(* segments, so strings.Split(s, "/") is the sequence itself.  A uuid is   *)
(* held as its sequence of characters.                                     *)

NoLabel == <<>>

\* the uuids uuid.New() returns, in no particular order
UUIDs ==
    << <<"a","1","b","2","c","3","d","4","-","1">>,
       <<"b","7","e","0","c","3","d","4","-","2">>,
       <<"a","1","b","2","f","f","0","0","-","3">>,
       <<"c","0","f","f","e","e","0","0","-","4">> >>

IdPool == { UUIDs[i] : i \in 1..MaxIds }

RECURSIVE Str(_)
\* the string made of a sequence of characters
Str(cs) == IF cs = <<>> THEN "" ELSE Head(cs) \o Str(Tail(cs))

\* s[:n]
Take(s, n) == SubSeq(s, 1, IF Len(s) < n THEN Len(s) ELSE n)

\* the two hex digits of one (ASCII) byte
HexByte(c) ==
    CASE c = "a" -> <<"6","1">> [] c = "b" -> <<"6","2">> [] c = "c" -> <<"6","3">>
      [] c = "d" -> <<"6","4">> [] c = "e" -> <<"6","5">> [] c = "f" -> <<"6","6">>
      [] c = "0" -> <<"3","0">> [] c = "1" -> <<"3","1">> [] c = "2" -> <<"3","2">>
      [] c = "3" -> <<"3","3">> [] c = "4" -> <<"3","4">> [] c = "7" -> <<"3","7">>
      [] c = "-" -> <<"2","d">>

RECURSIVE EncodeToString(_)
\* hex.EncodeToString([]byte(s)), as a sequence of hex digits
EncodeToString(s) ==
    IF s = <<>> THEN <<>> ELSE HexByte(Head(s)) \o EncodeToString(Tail(s))

\* hex.EncodeToString([]byte(id))[:8], per uuid
SuffixOf ==
    [id \in { UUIDs[i] : i \in DOMAIN UUIDs } |-> Str(Take(EncodeToString(id), 8))]

\* randSuffix := hex.EncodeToString([]byte(id))[:8]
randSuffix(id) == SuffixOf[id]

\* sha1 of s, hex, [:12]: an injective tag of s (SHA-1 collisions are not modelled)
shortHash(s) == "h" \o s

\* fmt.Sprintf("nc-%s-%s", shortHash(name), randSuffix)
HashedCloneName(name, id) == "nc-" \o shortHash(name) \o "-" \o randSuffix(id)

\* fmt.Sprintf("netwatch-clone-%s-%s", name, randSuffix)
LongCloneName(name, id) == "netwatch-clone-" \o name \o "-" \o randSuffix(id)

\* fmt.Sprintf("nc-%s-%s", localName, randSuffix)
PartialCloneName(name, id) == "nc-" \o name \o "-" \o randSuffix(id)

\* fmt.Sprintf("access-%s", cloneName)
AccessName(cloneName) == "access-" \o cloneName

\* fmt.Sprintf("ea-%s", cloneName)
ExternalAccessName(cloneName) == "ea-" \o cloneName

\* fmt.Sprintf("%s/%s", namespace, name)
Ref(ns, name) == ns \o "/" \o name

\* strconv-style decimal rendering of the durations that occur
Itoa(n) == CASE n = 0 -> "0" [] n = 600 -> "600"

\* durationStr of the full-grant paths: set only when Duration > 0
DurationIfPositive(d) == IF d > 0 THEN Itoa(d) \o "s" ELSE ""

\* durationStr of the partial paths: fmt.Sprintf("%ds", Duration), always
DurationAlways(d) == Itoa(d) \o "s"

----------------------------------------------------------------------------
(* Inputs *)

SvcA == <<"team-a", "svc1">>
SvcB == <<"team-b", "svc2">>
Malformed == <<"svc1">>
EmptyString == <<"">>

Originals == {SvcA, SvcB}

\* the sessions that run an approveAccessRequest call by call, once each
Approvers == {"p1", "p2"}

\* a session that has not sent its command
\* no GET /pending-requests is in flight
NoListing == [pc |-> "idle", items |-> {}, workers |-> <<>>, resultsChan |-> <<>>,
              pendingRequests |-> <<>>]

NotStarted == [pc |-> "idle", r |-> <<>>, i |-> 0, undo |-> <<>>, overlapped |-> FALSE]

\* the directions and durations the commands of a specification are given
NarrowPayloads == [dirs |-> {"ingress"}, durs |-> {600}]

\* every case of the direction switch: "both" stands for any other value
WidePayloads == [dirs |-> {"ingress", "egress", "both"}, durs |-> {600}]

\* both cases of the duration: 0 (none asked for) and a positive number of seconds
DurationPayloads == [dirs |-> {"ingress"}, durs |-> {0, 600}]

\* a ports string, as its comma-separated entries: "" and "http" (not a number)
PortInputs == {<<>>, <<"http">>}
Users == {"alice", "bob"}

Outcomes == {"allow", "deny", "error"}

----------------------------------------------------------------------------
(* The API server *)

Store == [svc |-> services, acc |-> accesses, ext |-> extaccesses, req |-> requests]

SetStore(st) ==
    /\ services' = st.svc
    /\ accesses' = st.acc
    /\ extaccesses' = st.ext
    /\ requests' = st.req

\* objects of a namespaced kind with this key (at most one)
At(objs, ns, name) == { o \in objs : o.ns = ns /\ o.name = name }

\* objects carrying the label netwatch.vtk.io/request-id = id
Labelled(objs, id) == { o \in objs : o.reqid = id }

\* client.Delete: an object holding a finalizer is only marked (deletionTimestamp),
\* any other object is removed
K8sDelete(objs, victims) ==
    (objs \ victims) \cup { [o EXCEPT !.del = TRUE] : o \in { v \in victims : v.fin } }

\* client.Update after controllerutil.AddFinalizer
K8sAddFinalizer(objs, o) == (objs \ {o}) \cup { [o EXCEPT !.fin = TRUE] }

\* client.Update after controllerutil.RemoveFinalizer: a marked object whose last
\* finalizer goes is removed
K8sRemoveFinalizer(objs, o) ==
    IF o.del THEN objs \ {o} ELSE (objs \ {o}) \cup { [o EXCEPT !.fin = FALSE] }

----------------------------------------------------------------------------
(* Cluster Access Facade (internal/k8s) *)

NewService(ns, name, id, origin) ==
    [ns |-> ns, name |-> name, reqid |-> id, origin |-> origin]

NewAccess(ns, name, id, direction, duration, targetName, targetNs) ==
    [ns |-> ns, name |-> name, reqid |-> id, direction |-> direction,
     duration |-> duration, target |-> [name |-> targetName, ns |-> targetNs],
     fin |-> FALSE, del |-> FALSE]

NewExternalAccess(ns, name, id, direction, duration, cidr) ==
    [ns |-> ns, name |-> name, reqid |-> id, direction |-> direction,
     duration |-> duration, cidr |-> cidr, fin |-> FALSE, del |-> FALSE]

\* CloneService: Get the original, Create the clone under newName.  It fails when
\* the original is missing, the name is taken, or the API call fails (fail).
CloneService(st, ns, origName, newName, id, fail) ==
    IF fail \/ At(st.svc, ns, origName) = {} \/ At(st.svc, ns, newName) # {}
    THEN [ok |-> FALSE, st |-> st]
    ELSE [ok |-> TRUE,
          st |-> [st EXCEPT !.svc = @ \cup {NewService(ns, newName, id, Ref(ns, origName))}]]

\* DeleteService: Services hold no finalizer of netwatch; NotFound is left to the caller
DeleteService(st, ns, name, fail) ==
    IF fail THEN st ELSE [st EXCEPT !.svc = @ \ At(@, ns, name)]

CreateAccess(st, a, fail) ==
    IF fail \/ At(st.acc, a.ns, a.name) # {}
    THEN [ok |-> FALSE, st |-> st]
    ELSE [ok |-> TRUE, st |-> [st EXCEPT !.acc = @ \cup {a}]]

DeleteAccess(st, ns, name, fail) ==
    IF fail THEN st ELSE [st EXCEPT !.acc = K8sDelete(@, At(@, ns, name))]

CreateExternalAccess(st, e, fail) ==
    IF fail \/ At(st.ext, e.ns, e.name) # {}
    THEN [ok |-> FALSE, st |-> st]
    ELSE [ok |-> TRUE, st |-> [st EXCEPT !.ext = @ \cup {e}]]

DeleteExternalAccess(st, ns, name, fail) ==
    IF fail THEN st ELSE [st EXCEPT !.ext = K8sDelete(@, At(@, ns, name))]

----------------------------------------------------------------------------
(* Permission Oracle (internal/k8s/client.go) *)

\* a variant that folds a check that could not be evaluated into a plain false
CanPerformAllActionsFolded(outs) ==
    IF \A i \in DOMAIN outs : outs[i] = "allow" THEN "true" ELSE "false"

\* a variant that takes a check that could not be evaluated for an allowed one
CanPerformAllActionsLenient(outs) ==
    IF \E i \in DOMAIN outs : outs[i] = "deny" THEN "false" ELSE "true"

\* outs: the member checks' results in the order the goroutines return.
\* errgroup.Wait yields the first non-nil error; "permission denied" becomes
\* (false, nil), any other error is returned.
CanPerformAllActions(outs) ==
    LET bad == { i \in DOMAIN outs : outs[i] # "allow" }
        first == CHOOSE i \in bad : \A j \in bad : i <= j
    IN  IF bad = {} THEN "true"
        ELSE IF outs[first] = "deny" THEN "false" ELSE "error"

AllAllowed(outs) == \A i \in DOMAIN outs : outs[i] = "allow"

\* the largest number of member checks of one call made on its own
MaxChecks == 4

\* results of n member checks in completion order; the members after the second
\* are taken to be allowed
PermOutcomes(n) == { outs \in [1..n -> Outcomes] : \A i \in 3..n : outs[i] = "allow" }

\* the same, with only the first member to return possibly not allowed
FirstOutcomes(n) == { outs \in [1..n -> Outcomes] : \A i \in 2..n : outs[i] = "allow" }

----------------------------------------------------------------------------
(* Provisioning: the full grant *)

NumericStrings == {"80", "443"}

\* getOverridePorts: every non-empty entry of the comma list must pass strconv.Atoi
getOverridePorts(ports) ==
    \A i \in DOMAIN ports : ports[i] = "" \/ ports[i] \in NumericStrings

SourceDirection(direction) ==
    CASE direction = "ingress" -> "ingress"
      [] direction = "egress" -> "egress"
      [] OTHER -> "all"

TargetDirection(direction) ==
    CASE direction = "ingress" -> "egress"
      [] direction = "egress" -> "ingress"
      [] OTHER -> "all"

\* Where a full-grant sequence can be made to fail (at), and whether the rollback
\* deletes that follow fail too (rb).
FaultPlans ==
    {[at |-> "none", rb |-> FALSE], [at |-> "srcClone", rb |-> FALSE]}
    \cup {[at |-> s, rb |-> b] : s \in {"tgtClone", "srcAccess", "tgtAccess"}, b \in BOOLEAN}

\* a variant whose last rollback leaves the source Access Declaration in place
FullGrantKeepsAccess(st, src, tgt, id, sClone, tClone, direction, duration, plan) ==
    LET c1 == CloneService(st, src[1], src[2], sClone, id, plan.at = "srcClone")
        c2 == CloneService(c1.st, tgt[1], tgt[2], tClone, id, plan.at = "tgtClone")
        sAcc == NewAccess(src[1], AccessName(sClone), id, "all", "", tClone, tgt[1])
        tAcc == NewAccess(tgt[1], AccessName(tClone), id, "all", "", sClone, src[1])
        a1 == CreateAccess(c2.st, sAcc, plan.at = "srcAccess")
        a2 == CreateAccess(a1.st, tAcc, plan.at = "tgtAccess")
        undo(s) == DeleteService(DeleteService(s, src[1], sClone, plan.rb),
                                 tgt[1], tClone, plan.rb)
    IN  IF ~c1.ok THEN [ok |-> FALSE, at |-> "srcClone", rbok |-> TRUE, st |-> st]
        ELSE IF ~c2.ok THEN
            [ok |-> FALSE, at |-> "tgtClone", rbok |-> ~plan.rb,
             st |-> DeleteService(c1.st, src[1], sClone, plan.rb)]
        ELSE IF ~a1.ok THEN
            [ok |-> FALSE, at |-> "srcAccess", rbok |-> ~plan.rb, st |-> undo(c2.st)]
        ELSE IF ~a2.ok THEN
            [ok |-> FALSE, at |-> "tgtAccess", rbok |-> ~plan.rb, st |-> undo(a1.st)]
        ELSE [ok |-> TRUE, at |-> "none", rbok |-> TRUE, st |-> a2.st]

\* The creation sequence shared by createClusterAccess, the tail of
\* handleRequestClusterAccess and approveFullRequest (Service): clone source, clone
\* target, create the source Access, create the target Access, each failure followed
\* by its compensating deletes.
FullGrant(st, src, tgt, id, sClone, tClone, direction, duration, plan) ==
    LET sNs == src[1]
        sName == src[2]
        tNs == tgt[1]
        tName == tgt[2]
        c1 == CloneService(st, sNs, sName, sClone, id, plan.at = "srcClone")
        c2 == CloneService(c1.st, tNs, tName, tClone, id, plan.at = "tgtClone")
        sAcc == NewAccess(sNs, AccessName(sClone), id, SourceDirection(direction),
                          DurationIfPositive(duration), tClone, tNs)
        tAcc == NewAccess(tNs, AccessName(tClone), id, TargetDirection(direction),
                          DurationIfPositive(duration), sClone, sNs)
        a1 == CreateAccess(c2.st, sAcc, plan.at = "srcAccess")
        a2 == CreateAccess(a1.st, tAcc, plan.at = "tgtAccess")
        undoS(s) == DeleteService(s, sNs, sClone, plan.rb)
        undoT(s) == DeleteService(s, tNs, tClone, plan.rb)
        undoA(s) == DeleteAccess(s, sNs, AccessName(sClone), plan.rb)
    IN  IF ~c1.ok THEN
            [ok |-> FALSE, at |-> "srcClone", rbok |-> TRUE, st |-> st]
        ELSE IF ~c2.ok THEN
            [ok |-> FALSE, at |-> "tgtClone", rbok |-> ~plan.rb,
             st |-> undoS(c1.st)]
        ELSE IF ~a1.ok THEN
            [ok |-> FALSE, at |-> "srcAccess", rbok |-> ~plan.rb,
             st |-> undoT(undoS(c2.st))]
        ELSE IF ~a2.ok THEN
            [ok |-> FALSE, at |-> "tgtAccess", rbok |-> ~plan.rb,
             st |-> undoA(undoT(undoS(a1.st)))]
        ELSE [ok |-> TRUE, at |-> "none", rbok |-> TRUE, st |-> a2.st]

\* createClusterAccess, once the ports and the references parsed
createClusterAccess(st, src, tgt, id, direction, duration, plan) ==
    FullGrant(st, src, tgt, id, HashedCloneName(src[2], id), HashedCloneName(tgt[2], id),
              direction, duration, plan)

\* the creation sequence handleRequestClusterAccess runs itself after
\* createClusterAccess returned
InlineClusterAccess(st, src, tgt, id, direction, duration, plan) ==
    FullGrant(st, src, tgt, id, LongCloneName(src[2], id), LongCloneName(tgt[2], id),
              direction, duration, plan)

----------------------------------------------------------------------------
(* State after start-up: the original Services, nothing of netwatch's *)

Init ==
    /\ services = { NewService(o[1], o[2], NoLabel, "") : o \in Originals }
    /\ accesses = {}
    /\ extaccesses = {}
    /\ requests = {}
    /\ usedIds = {}
    /\ hist = [id \in IdPool |-> {}]
    /\ approvals = [p \in Approvers |-> NotStarted]
    /\ listing = NoListing
    /\ last = [cmd |-> "init", log |-> <<>>, ids |-> {}, authorized |-> FALSE,
               sides |-> {}, checks |-> <<>>, verdict |-> "", notes |-> {}, rows |-> {}]

\* two uuids that agree on their first four characters
CollidingIds == {UUIDs[1], UUIDs[3]}

\* the same start-up, in a behaviour where uuid.New() returns the colliding uuids
InitCollide ==
    /\ services = { NewService(o[1], o[2], NoLabel, "") : o \in Originals }
    /\ accesses = {}
    /\ extaccesses = {}
    /\ requests = {}
    /\ usedIds = {}
    /\ hist = [id \in CollidingIds |-> {}]
    /\ approvals = [p \in Approvers |-> NotStarted]
    /\ listing = NoListing
    /\ last = [cmd |-> "init", log |-> <<>>, ids |-> {}, authorized |-> FALSE,
               sides |-> {}, checks |-> <<>>, verdict |-> "", notes |-> {}, rows |-> {}]

KeyOf(o) == [ns |-> o.ns, name |-> o.name]

\* what a command reports: its log entries, the correlation ids it acted under,
\* whether the Permission Oracle allowed every member check it made
Report(cmd, log, ids, authorized) ==
    last' = [cmd |-> cmd, log |-> log, ids |-> ids, authorized |-> authorized,
             sides |-> {}, checks |-> <<>>, verdict |-> "", notes |-> {}, rows |-> {}]

\* the same, with notes of what the command met on its way
ReportNoted(cmd, log, ids, authorized, notes) ==
    last' = [cmd |-> cmd, log |-> log, ids |-> ids, authorized |-> authorized,
             sides |-> {}, checks |-> <<>>, verdict |-> "", notes |-> notes, rows |-> {}]

\* the report of submitAccessRequest: sides are the sides ("source", "target") whose
\* permission set the oracle allowed
ReportSubmit(log, ids, sides) ==
    last' = [cmd |-> "submitAccessRequest", log |-> log, ids |-> ids,
             authorized |-> FALSE, sides |-> sides, checks |-> <<>>, verdict |-> "",
             notes |-> {}, rows |-> {}]

Entries(log) == { log[i] : i \in DOMAIN log }

Tag(h, id, tag) == [h EXCEPT ![id] = @ \cup {tag}]

\* the history tag that keeps the direction a command was given
DirTag(direction) == "requested-" \o direction

\* the first of the uuids of a behaviour (those hist keeps a history of) that is
\* not among used, if any is left
FirstUnused(used) ==
    LET left == { i \in DOMAIN UUIDs : UUIDs[i] \in (DOMAIN hist) \ used }
    IN  { UUIDs[i] : i \in { j \in left : \A k \in left : j <= k } }

\* uuid.New(): the next uuid never handed out before (none once the bound is reached;
\* a command that draws uuids is issued only while enough of them remain)
FreshIds == FirstUnused(usedIds)

\* the uuid a second uuid.New() of the same command returns
NextFreshIds(id1) == FirstUnused(usedIds \cup {id1})

\* the history tag of one full-grant sequence
FullTag(r) ==
    IF r.ok THEN "fullOk"
    ELSE IF r.at = "srcClone" THEN "fullFailedFirst"
    ELSE IF r.rbok THEN "fullFailed" ELSE "fullFailedRollback"

OkLog(ok) == IF ok THEN <<"success">> ELSE <<"error">>

\* the sendError of a permission check that did not allow: denied, or not evaluated
PermLog(verdict) ==
    IF verdict = "false" THEN <<"permissionDenied">> ELSE <<"permissionError">>

\* the log entries sendError writes
ErrorEntries == {"error", "cleanupError", "permissionDenied", "permissionError"}

Failed(log) == Entries(log) \cap ErrorEntries # {}

\* the objects that carry a correlation id
ClonesOf(id) == Labelled(services, id)
DeclarationsOf(id) == Labelled(accesses, id) \cup Labelled(extaccesses, id)
RequestsOf(id) == { r \in requests : r.requestID = id }

\* history tags that describe the latest full-grant sequence or approval run under
\* an id
OutcomeTags == {"fullOk", "fullFailedFirst", "fullFailed", "fullFailedRollback",
                "hadObjects", "deleteFailed"}

\* CanPerformAllActions called on its own: checks are the member checks' results in
\* the order the goroutines return them, verdict is what the call returns
CheckPermissions ==
    \E n \in 1..MaxChecks : \E outs \in [1..n -> Outcomes] :
        /\ last' = [cmd |-> "CanPerformAllActions", log |-> <<>>, ids |-> {},
                    authorized |-> AllAllowed(outs), sides |-> {},
                    checks |-> outs, verdict |-> CanPerformAllActions(outs),
                    notes |-> {}, rows |-> {}]
        /\ UNCHANGED <<services, accesses, extaccesses, requests, usedIds, hist, approvals, listing>>

----------------------------------------------------------------------------
(* requestClusterAccess *)

handleRequestClusterAccess(P) ==
    \E src \in {SvcA, Malformed}, tgt \in {SvcB}, free1 \in FreshIds :
      \E free2 \in NextFreshIds(free1) :
        IF Len(src) # 2 \/ Len(tgt) # 2 THEN
            /\ Report("requestClusterAccess", <<"error">>, {}, FALSE)
            /\ UNCHANGED <<services, accesses, extaccesses, requests, usedIds, hist, approvals, listing>>
        ELSE \E perms \in PermOutcomes(4) :
            IF CanPerformAllActions(perms) # "true" THEN
                /\ Report("requestClusterAccess", PermLog(CanPerformAllActions(perms)), {},
                          AllAllowed(perms))
                /\ UNCHANGED <<services, accesses, extaccesses, requests, usedIds, hist, approvals, listing>>
            ELSE \E ports \in PortInputs :
                IF ~getOverridePorts(ports) THEN
                    \* createClusterAccess reports and returns, then the handler's own
                    \* parse reports and returns
                    /\ Report("requestClusterAccess", <<"error", "error">>, {},
                              AllAllowed(perms))
                    /\ UNCHANGED <<services, accesses, extaccesses, requests, usedIds, hist, approvals, listing>>
                ELSE \E direction \in P.dirs, duration \in P.durs,
                        id1 \in FreshIds, plan1 \in FaultPlans, plan2 \in FaultPlans :
                     \E id2 \in NextFreshIds(id1) :
                        LET r1 == createClusterAccess(Store, src, tgt, id1, direction,
                                                      duration, plan1)
                            r2 == InlineClusterAccess(r1.st, src, tgt, id2, direction,
                                                      duration, plan2)
                        IN  /\ SetStore(r2.st)
                            /\ usedIds' = usedIds \cup {id1, id2}
                            /\ UNCHANGED <<approvals, listing>>
                            /\ hist' = [hist EXCEPT
                                   ![id1] = @ \cup {FullTag(r1), DirTag(direction)},
                                   ![id2] = @ \cup {FullTag(r2), DirTag(direction)}]
                            /\ Report("requestClusterAccess", OkLog(r1.ok) \o OkLog(r2.ok),
                                      {id1, id2}, AllAllowed(perms))

\* createClusterAccess in a process that stops (crash, dropped session) after the
\* first steps creations of the sequence: source clone, target clone, source Access
createClusterAccessStopped(st, src, tgt, id, direction, duration, steps) ==
    LET sClone == HashedCloneName(src[2], id)
        tClone == HashedCloneName(tgt[2], id)
        c1 == CloneService(st, src[1], src[2], sClone, id, FALSE)
        c2 == CloneService(c1.st, tgt[1], tgt[2], tClone, id, FALSE)
        sAcc == NewAccess(src[1], AccessName(sClone), id, SourceDirection(direction),
                          DurationIfPositive(duration), tClone, tgt[1])
        a1 == CreateAccess(c2.st, sAcc, FALSE)
    IN  IF steps = 1 THEN c1.st ELSE IF steps = 2 THEN c2.st ELSE a1.st

\* a requestClusterAccess that passed its checks and whose process stops inside
\* createClusterAccess: nothing is rolled back, nothing is reported
CrashDuringGrant(P) ==
    \E direction \in P.dirs, duration \in P.durs, id \in FreshIds, steps \in 1..3 :
        /\ SetStore(createClusterAccessStopped(Store, SvcA, SvcB, id, direction, duration,
                                               steps))
        /\ usedIds' = usedIds \cup {id}
        /\ UNCHANGED <<approvals, listing>>
        /\ hist' = [hist EXCEPT ![id] = @ \cup {"crashed", DirTag(direction)}]
        /\ Report("crash", <<>>, {id}, TRUE)

----------------------------------------------------------------------------
(* requestExternalAccess *)

CidrInputs == {"10.0.0.0/8", "office"}

\* net.ParseCIDR succeeds, or else net.ParseIP does
ValidCidr(cidr) == cidr \in {"10.0.0.0/8", "10.1.2.3"}

\* where the clone-then-declare sequences can be made to fail
ShortFaultPlans ==
    {[at |-> "none", rb |-> FALSE], [at |-> "clone", rb |-> FALSE],
     [at |-> "declare", rb |-> FALSE], [at |-> "declare", rb |-> TRUE]}

ShortTag(r) ==
    IF r.ok THEN "extOk"
    ELSE IF r.at = "clone" THEN "extFailedFirst"
    ELSE IF r.rbok THEN "extFailed" ELSE "extFailedRollback"

\* clone the service, create the ExternalAccess, delete the clone if that fails:
\* the tail of handleRequestExternalAccess and approveFullRequest (External)
ExternalGrant(st, svc, id, direction, duration, cidr, plan) ==
    LET ns == svc[1]
        cloneName == HashedCloneName(svc[2], id)
        c == CloneService(st, ns, svc[2], cloneName, id, plan.at = "clone")
        ea == NewExternalAccess(ns, ExternalAccessName(cloneName), id, direction,
                                DurationIfPositive(duration), cidr)
        e == CreateExternalAccess(c.st, ea, plan.at = "declare")
    IN  IF ~c.ok THEN [ok |-> FALSE, at |-> "clone", rbok |-> TRUE, st |-> st]
        ELSE IF ~e.ok THEN
            [ok |-> FALSE, at |-> "declare", rbok |-> ~plan.rb,
             st |-> DeleteService(c.st, ns, cloneName, plan.rb)]
        ELSE [ok |-> TRUE, at |-> "none", rbok |-> TRUE, st |-> e.st]

handleRequestExternalAccess(P) ==
    \E svc \in {SvcA, Malformed}, free \in FreshIds :
        IF Len(svc) # 2 THEN
            /\ Report("requestExternalAccess", <<"error">>, {}, FALSE)
            /\ UNCHANGED <<services, accesses, extaccesses, requests, usedIds, hist, approvals, listing>>
        ELSE \E perms \in PermOutcomes(2) :
            IF CanPerformAllActions(perms) # "true" THEN
                /\ Report("requestExternalAccess", PermLog(CanPerformAllActions(perms)),
                          {}, AllAllowed(perms))
                /\ UNCHANGED <<services, accesses, extaccesses, requests, usedIds, hist, approvals, listing>>
            ELSE \E ports \in PortInputs, cidr \in CidrInputs :
                IF ~getOverridePorts(ports) \/ ~ValidCidr(cidr) THEN
                    /\ Report("requestExternalAccess", <<"error">>, {}, AllAllowed(perms))
                    /\ UNCHANGED <<services, accesses, extaccesses, requests, usedIds, hist, approvals, listing>>
                ELSE \E direction \in P.dirs, duration \in P.durs,
                        id \in FreshIds, plan \in ShortFaultPlans :
                        LET r == ExternalGrant(Store, svc, id, direction, duration, cidr,
                                               plan)
                        IN  /\ SetStore(r.st)
                            /\ usedIds' = usedIds \cup {id}
                            /\ UNCHANGED <<approvals, listing>>
                            /\ hist' = Tag(hist, id, ShortTag(r))
                            /\ Report("requestExternalAccess", OkLog(r.ok), {id},
                                      AllAllowed(perms))

----------------------------------------------------------------------------
(* Partial access and submitAccessRequest *)

\* a variant that gives either side the direction of the source side
PartialDirectionOneSided(direction, isSource) ==
    IF direction \in {"ingress", "egress"} THEN direction ELSE "all"

\* the direction of a single-sided Access Declaration
PartialDirection(direction, isSource) ==
    IF (direction = "egress" /\ isSource) \/ (direction = "ingress" /\ ~isSource)
    THEN "egress"
    ELSE IF (direction = "ingress" /\ isSource) \/ (direction = "egress" /\ ~isSource)
    THEN "ingress"
    ELSE "all"

\* a variant that clones the local side and declares nothing
createPartialAccessCloneOnly(st, localNs, localName, remoteNs, remoteName, reqID, direction, duration, ports, isSource, plan) ==
    LET localCloneName == PartialCloneName(localName, reqID)
        c == CloneService(st, localNs, localName, localCloneName, reqID,
                          plan.at = "clone")
    IN  IF ~getOverridePorts(ports) \/ ~c.ok THEN [ok |-> FALSE, name |-> "", st |-> st]
        ELSE [ok |-> TRUE, name |-> localCloneName, st |-> c.st]

\* createPartialAccess: clone the local side, declare the Access whose target is
\* the remote clone's expected name
createPartialAccess(st, localNs, localName, remoteNs, remoteName, reqID, direction, duration, ports, isSource, plan) ==
    LET localCloneName == PartialCloneName(localName, reqID)
        c == CloneService(st, localNs, localName, localCloneName, reqID,
                          plan.at = "clone")
        access == NewAccess(localNs, AccessName(localCloneName), reqID,
                            PartialDirection(direction, isSource),
                            DurationAlways(duration),
                            LongCloneName(remoteName, reqID), remoteNs)
        a == CreateAccess(c.st, access, plan.at = "declare")
    IN  IF ~getOverridePorts(ports) THEN [ok |-> FALSE, name |-> "", st |-> st]
        ELSE IF ~c.ok THEN [ok |-> FALSE, name |-> "", st |-> st]
        ELSE IF ~a.ok THEN
            [ok |-> FALSE, name |-> "",
             st |-> DeleteService(c.st, localNs, localCloneName, plan.rb)]
        ELSE [ok |-> TRUE, name |-> localCloneName, st |-> a.st]

\* fmt.Sprintf("ar-%s-%s", sanitizedUsername, requestID[:8])
RequestName(user, id) == "ar-" \o user \o "-" \o Str(Take(id, 8))

NewAccessRequest(user, type, src, tgt, svc, cidr, direction, ports, duration, status, id, sourceCloneName, targetCloneName) ==
    [ns |-> "", name |-> RequestName(user, id), requestor |-> user, type |-> type,
     source |-> src, target |-> tgt, service |-> svc, cidr |-> cidr,
     direction |-> direction,
     ports |-> ports, duration |-> duration, status |-> status, requestID |-> id,
     sourceCloneName |-> sourceCloneName, targetCloneName |-> targetCloneName,
     fin |-> FALSE, del |-> FALSE]

CreateAccessRequestAsApp(st, r, fail) ==
    IF fail \/ At(st.req, r.ns, r.name) # {}
    THEN [ok |-> FALSE, st |-> st]
    ELSE [ok |-> TRUE, st |-> [st EXCEPT !.req = @ \cup {r}]]

\* a variant that keeps the request and marks it approved in place
DeleteAccessRequestAsAppMarks(st, name, fail) ==
    IF fail THEN st
    ELSE [st EXCEPT !.req = { IF r.name = name THEN [r EXCEPT !.status = "Approved"]
                              ELSE r : r \in @ }]

DeleteAccessRequestAsApp(st, name, fail) ==
    IF fail THEN st ELSE [st EXCEPT !.req = K8sDelete(@, At(@, "", name))]

Submitters == {"alice"}

\* the uuids drawn by submitAccessRequest so far
SubmittedIds ==
    { id \in DOMAIN hist :
        hist[id] \cap {"submitted", "submitFailed", "submitAborted"} # {} }

\* the service-to-service branch (payload.TargetService # "")
SubmitService(P, user, src, tgt) ==
    IF Len(src) # 2 \/ Len(tgt) # 2 THEN
        /\ ReportSubmit(<<"error">>, {}, {})
        /\ UNCHANGED <<services, accesses, extaccesses, requests, usedIds, hist, approvals, listing>>
    ELSE \E outsS \in FirstOutcomes(2), outsT \in FirstOutcomes(2),
            direction \in P.dirs, duration \in P.durs, ports \in PortInputs,
            id \in FreshIds, plan \in ShortFaultPlans, createFails \in BOOLEAN :
        LET canSource == CanPerformAllActions(outsS) = "true"
            canTarget == CanPerformAllActions(outsT) = "true"
            status == IF canSource /\ canTarget THEN "PendingFull"
                      ELSE IF canSource THEN "PendingTarget"
                      ELSE IF canTarget THEN "PendingSource"
                      ELSE "PendingFull"
            part == IF status = "PendingTarget"
                    THEN createPartialAccess(Store, src[1], src[2], tgt[1], tgt[2], id,
                                             direction, duration, ports, TRUE, plan)
                    ELSE IF status = "PendingSource"
                    THEN createPartialAccess(Store, tgt[1], tgt[2], src[1], src[2], id,
                                             direction, duration, ports, FALSE, plan)
                    ELSE [ok |-> TRUE, name |-> "", st |-> Store]
            cr == NewAccessRequest(user, "Service", src, tgt, EmptyString, "", direction,
                                   ports, duration, status, id,
                                   IF status = "PendingTarget" THEN part.name ELSE "",
                                   IF status = "PendingSource" THEN part.name ELSE "")
            c == CreateAccessRequestAsApp(part.st, cr, createFails)
            sides == {x \in {"source"} : canSource} \cup {x \in {"target"} : canTarget}
        IN  /\ usedIds' = usedIds \cup {id}
            /\ UNCHANGED <<approvals, listing>>
            /\ IF ~part.ok THEN
                   /\ SetStore(part.st)
                   /\ hist' = Tag(Tag(hist, id, "submitAborted"), id, DirTag(direction))
                   /\ ReportSubmit(<<"error">>, {id}, sides)
               ELSE
                   /\ SetStore(c.st)
                   /\ hist' = Tag(Tag(hist, id, IF c.ok THEN "submitted" ELSE "submitFailed"),
                                  id, DirTag(direction))
                   /\ ReportSubmit(OkLog(c.ok), {id}, sides)

\* the external branch: always PendingFull
SubmitExternal(P, user, svc) ==
    \E direction \in P.dirs, duration \in P.durs, ports \in PortInputs,
       cidr \in CidrInputs, id \in FreshIds, createFails \in BOOLEAN :
        LET cr == NewAccessRequest(user, "External", EmptyString, EmptyString, svc, cidr,
                                   direction, ports, duration, "PendingFull", id, "", "")
            c == CreateAccessRequestAsApp(Store, cr, createFails)
        IN  /\ usedIds' = usedIds \cup {id}
            /\ UNCHANGED <<approvals, listing>>
            /\ SetStore(c.st)
            /\ hist' = Tag(hist, id, IF c.ok THEN "submitted" ELSE "submitFailed")
            /\ ReportSubmit(OkLog(c.ok), {id}, {})

handleSubmitAccessRequest(P) ==
    \E user \in Submitters, src \in {SvcA, Malformed}, tgt \in {SvcB, EmptyString} :
        /\ Cardinality(SubmittedIds) < MaxRequests
        /\ FreshIds # {}
        /\ IF tgt # EmptyString THEN SubmitService(P, user, src, tgt)
           ELSE Len(src) = 2 /\ SubmitExternal(P, user, src)

\* submitAccessRequest for the two services, as long as uuid.New() has a uuid left
SubmitForServices(P) ==
    \E user \in Submitters :
        /\ FreshIds # {}
        /\ SubmitService(P, user, SvcA, SvcB)

IsPartial(status) == status \in {"PendingTarget", "PendingSource"}

----------------------------------------------------------------------------
(* approveAccessRequest *)

\* a variant that draws a correlation id of its own for what it creates
approveFullRequestNewId(st, r, plan) ==
    LET id == CHOOSE x \in IdPool : x # r.requestID
    IN  IF ~getOverridePorts(r.ports) THEN
            [ok |-> FALSE, at |-> "ports", rbok |-> TRUE, st |-> st]
        ELSE IF r.type = "Service" THEN
            FullGrant(st, r.source, r.target, id, HashedCloneName(r.source[2], id),
                      HashedCloneName(r.target[2], id), r.direction, r.duration, plan)
        ELSE ExternalGrant(st, r.service, id, r.direction, r.duration, r.cidr, plan)

\* approveFullRequest: the full-grant sequence from the stored request
approveFullRequest(st, r, plan) ==
    IF ~getOverridePorts(r.ports) THEN
        [ok |-> FALSE, at |-> "ports", rbok |-> TRUE, st |-> st]
    ELSE IF r.type = "Service" THEN
        FullGrant(st, r.source, r.target, r.requestID,
                  HashedCloneName(r.source[2], r.requestID),
                  HashedCloneName(r.target[2], r.requestID),
                  r.direction, r.duration, plan)
    ELSE ExternalGrant(st, r.service, r.requestID, r.direction, r.duration, r.cidr, plan)

\* a variant that leaves the clone in place when the Access cannot be created
approvePartialRequestKeepsClone(st, r, approvingSourceSide, plan) ==
    LET local == IF approvingSourceSide THEN r.source ELSE r.target
        localCloneName == PartialCloneName(local[2], r.requestID)
        c == CloneService(st, local[1], local[2], localCloneName, r.requestID,
                          plan.at = "clone")
        access == NewAccess(local[1], AccessName(localCloneName), r.requestID, "all",
                            DurationAlways(r.duration), "", "")
        a == CreateAccess(c.st, access, plan.at = "declare")
    IN  IF ~getOverridePorts(r.ports) THEN
            [ok |-> FALSE, at |-> "ports", rbok |-> TRUE, st |-> st]
        ELSE IF ~c.ok THEN [ok |-> FALSE, at |-> "clone", rbok |-> TRUE, st |-> st]
        ELSE IF ~a.ok THEN [ok |-> FALSE, at |-> "declare", rbok |-> ~plan.rb, st |-> c.st]
        ELSE [ok |-> TRUE, at |-> "none", rbok |-> TRUE, st |-> a.st]

\* approvePartialRequest: clone the missing side and declare its Access, whose
\* target is the clone name stored in the request
approvePartialRequest(st, r, approvingSourceSide, plan) ==
    LET local == IF approvingSourceSide THEN r.source ELSE r.target
        remoteNs == IF approvingSourceSide THEN r.target[1] ELSE r.source[1]
        existingCloneName == IF approvingSourceSide THEN r.targetCloneName
                             ELSE r.sourceCloneName
        localCloneName == PartialCloneName(local[2], r.requestID)
        c == CloneService(st, local[1], local[2], localCloneName, r.requestID,
                          plan.at = "clone")
        access == NewAccess(local[1], AccessName(localCloneName), r.requestID,
                            PartialDirection(r.direction, r.status = "PendingSource"),
                            DurationAlways(r.duration), existingCloneName, remoteNs)
        a == CreateAccess(c.st, access, plan.at = "declare")
    IN  IF ~getOverridePorts(r.ports) THEN
            [ok |-> FALSE, at |-> "ports", rbok |-> TRUE, st |-> st]
        ELSE IF ~c.ok THEN [ok |-> FALSE, at |-> "clone", rbok |-> TRUE, st |-> st]
        ELSE IF ~a.ok THEN
            [ok |-> FALSE, at |-> "declare", rbok |-> ~plan.rb,
             st |-> DeleteService(c.st, local[1], localCloneName, plan.rb)]
        ELSE [ok |-> TRUE, at |-> "none", rbok |-> TRUE, st |-> a.st]

\* the switch of handleApproveAccessRequest on the stored status: PendingTarget is
\* completed on the target side, PendingSource on the source side, any other
\* status than the three is refused
approveRequest(st, r, plan) ==
    CASE r.status = "PendingFull" -> approveFullRequest(st, r, plan)
      [] r.status = "PendingTarget" -> approvePartialRequest(st, r, FALSE, plan)
      [] r.status = "PendingSource" -> approvePartialRequest(st, r, TRUE, plan)
      [] OTHER -> [ok |-> FALSE, at |-> "status", rbok |-> TRUE, st |-> st]

\* the fault plans that fit the sequence a request's approval runs
ApprovePlans(r) ==
    IF r.status = "PendingFull" /\ r.type = "Service" THEN FaultPlans ELSE ShortFaultPlans

\* the history tag of an approval
ApproveTag(r, res) ==
    IF IsPartial(r.status) THEN (IF res.ok THEN "partialApproved" ELSE "partialApproveFailed")
    ELSE IF res.at \in {"ports", "status"} THEN "approveRejected"
    ELSE IF r.type = "Service" THEN FullTag(res) ELSE ShortTag(res)

\* a variant that takes back what the approval created when the AccessRequest
\* cannot be deleted, and reports the failure
finishApprovalUndo(st, r, deleteFails) ==
    IF deleteFails
    THEN [st |-> [st EXCEPT !.svc = @ \ Labelled(@, r.requestID),
                            !.acc = @ \ Labelled(@, r.requestID),
                            !.ext = @ \ Labelled(@, r.requestID)],
          log |-> <<"error">>]
    ELSE [st |-> DeleteAccessRequestAsApp(st, r.name, FALSE), log |-> <<"success">>]

\* the end of handleApproveAccessRequest: delete the approved AccessRequest, a
\* failure being written to the server log only ("logError"), then report success
finishApproval(st, r, deleteFails) ==
    [st |-> DeleteAccessRequestAsApp(st, r.name, deleteFails),
     log |-> (IF deleteFails THEN <<"logError">> ELSE <<>>) \o <<"success">>]

\* the names a command can be given: those of the stored requests, and one of none
RequestNames == { r.name : r \in requests } \cup {"ar-nobody-00000000"}

handleApproveAccessRequest ==
    \E name \in RequestNames :
        IF At(requests, "", name) = {} THEN
            /\ Report("approveAccessRequest", <<"error">>, {}, FALSE)
            /\ UNCHANGED <<services, accesses, extaccesses, requests, usedIds, hist, approvals, listing>>
        ELSE
            LET r == CHOOSE x \in At(requests, "", name) : TRUE
            IN  \E plan \in ApprovePlans(r), deleteFails \in BOOLEAN :
                LET res == approveRequest(Store, r, plan)
                    had == ClonesOf(r.requestID) \cup DeclarationsOf(r.requestID) # {}
                IN  /\ deleteFails => res.ok
                    /\ hist' = [hist EXCEPT ![r.requestID] =
                                  (@ \ OutcomeTags)
                                  \cup {ApproveTag(r, res)}
                                  \cup {x \in {"hadObjects"} : had}
                                  \cup {x \in {"approveDeleteFailed", "deleteFailed"} :
                                          deleteFails}]
                    /\ UNCHANGED <<usedIds, approvals, listing>>
                    /\ IF ~res.ok THEN
                           /\ SetStore(res.st)
                           /\ ReportNoted("approveAccessRequest", <<"error">>,
                                          {r.requestID}, FALSE,
                                          {x \in {"rollbackFailed"} : ~res.rbok})
                       ELSE
                           /\ SetStore(finishApproval(res.st, r, deleteFails).st)
                           /\ Report("approveAccessRequest",
                                     finishApproval(res.st, r, deleteFails).log,
                                     {r.requestID}, FALSE)

----------------------------------------------------------------------------
(* approveAccessRequest, call by call: the same sequences, one API call per step, *)
(* so that two sessions and the reconciler interleave                              *)

\* the number of create calls of the approval of a request
ApprovalCalls(r) ==
    IF r.status = "PendingFull" /\ r.type = "Service" THEN 4
    ELSE IF r.status = "PendingFull" \/ IsPartial(r.status) THEN 2
    ELSE 0

\* the i-th create call of approveFullRequest (Service: source clone, target clone,
\* source Access, target Access; External: clone, ExternalAccess) and of
\* approvePartialRequest (clone, Access)
approvalCreate(st, r, i, fail) ==
    LET id == r.requestID
    IN  IF r.status = "PendingFull" /\ r.type = "Service" THEN
            LET sClone == HashedCloneName(r.source[2], id)
                tClone == HashedCloneName(r.target[2], id)
            IN  CASE i = 1 -> CloneService(st, r.source[1], r.source[2], sClone, id, fail)
                  [] i = 2 -> CloneService(st, r.target[1], r.target[2], tClone, id, fail)
                  [] i = 3 -> CreateAccess(st, NewAccess(r.source[1], AccessName(sClone), id,
                                               SourceDirection(r.direction),
                                               DurationIfPositive(r.duration),
                                               tClone, r.target[1]), fail)
                  [] OTHER -> CreateAccess(st, NewAccess(r.target[1], AccessName(tClone), id,
                                               TargetDirection(r.direction),
                                               DurationIfPositive(r.duration),
                                               sClone, r.source[1]), fail)
        ELSE IF r.status = "PendingFull" THEN
            LET cloneName == HashedCloneName(r.service[2], id)
            IN  IF i = 1
                THEN CloneService(st, r.service[1], r.service[2], cloneName, id, fail)
                ELSE CreateExternalAccess(st,
                         NewExternalAccess(r.service[1], ExternalAccessName(cloneName), id,
                                           r.direction, DurationIfPositive(r.duration),
                                           r.cidr), fail)
        ELSE
            LET approvingSourceSide == r.status = "PendingSource"
                local == IF approvingSourceSide THEN r.source ELSE r.target
                remoteNs == IF approvingSourceSide THEN r.target[1] ELSE r.source[1]
                existingCloneName == IF approvingSourceSide THEN r.targetCloneName
                                     ELSE r.sourceCloneName
                localCloneName == PartialCloneName(local[2], id)
            IN  IF i = 1
                THEN CloneService(st, local[1], local[2], localCloneName, id, fail)
                ELSE CreateAccess(st, NewAccess(local[1], AccessName(localCloneName), id,
                                      PartialDirection(r.direction, approvingSourceSide),
                                      DurationAlways(r.duration), existingCloneName,
                                      remoteNs), fail)

\* the compensating delete of the i-th create call
approvalUndo(st, r, i) ==
    LET id == r.requestID
    IN  IF r.status = "PendingFull" /\ r.type = "Service" THEN
            LET sClone == HashedCloneName(r.source[2], id)
                tClone == HashedCloneName(r.target[2], id)
            IN  CASE i = 1 -> DeleteService(st, r.source[1], sClone, FALSE)
                  [] i = 2 -> DeleteService(st, r.target[1], tClone, FALSE)
                  [] OTHER -> DeleteAccess(st, r.source[1], AccessName(sClone), FALSE)
        ELSE IF r.status = "PendingFull" THEN
            DeleteService(st, r.service[1], HashedCloneName(r.service[2], id), FALSE)
        ELSE
            LET local == IF r.status = "PendingSource" THEN r.source ELSE r.target
            IN  DeleteService(st, local[1], PartialCloneName(local[2], id), FALSE)

\* the sessions whose approval is between its first call and its report
Running == { p \in Approvers : approvals[p].pc \in {"create", "rollback", "finish"} }

\* the report of a call that is not the last of its command
ReportCall(id) == ReportNoted("approveAccessRequest/call", <<>>, {id}, FALSE, {})

\* GetAccessRequestAsApp, the switch on the status, and the parse of the ports
BeginApproval(p) ==
    /\ approvals[p].pc = "idle"
    /\ \E r \in requests :
        LET refused == ApprovalCalls(r) = 0 \/ ~getOverridePorts(r.ports)
        IN  /\ approvals' = [q \in Approvers |->
                   IF q = p
                   THEN [pc |-> IF refused THEN "failed" ELSE "create", r |-> r, i |-> 1,
                         undo |-> <<>>, overlapped |-> Running # {}]
                   ELSE IF q \in Running THEN [approvals[q] EXCEPT !.overlapped = TRUE]
                   ELSE approvals[q]]
            /\ IF refused
               THEN Report("approveAccessRequest", <<"error">>, {r.requestID}, FALSE)
               ELSE ReportCall(r.requestID)
    /\ UNCHANGED <<services, accesses, extaccesses, requests, usedIds, hist, listing>>

\* the next create call of a running approval; when it fails, the compensating
\* deletes of the calls made before it are due, in the order of their creation
ApprovalCreateStep(p) ==
    /\ approvals[p].pc = "create"
    /\ \E fail \in BOOLEAN :
        LET a == approvals[p]
            res == approvalCreate(Store, a.r, a.i, fail)
        IN  /\ SetStore(res.st)
            /\ IF res.ok THEN
                   /\ approvals' = [approvals EXCEPT ![p] =
                          [a EXCEPT !.i = a.i + 1,
                                    !.pc = IF a.i = ApprovalCalls(a.r) THEN "finish"
                                           ELSE "create"]]
                   /\ ReportCall(a.r.requestID)
               ELSE IF a.i = 1 THEN
                   /\ approvals' = [approvals EXCEPT ![p] = [a EXCEPT !.pc = "failed"]]
                   /\ Report("approveAccessRequest", <<"error">>, {a.r.requestID}, FALSE)
               ELSE
                   /\ approvals' = [approvals EXCEPT ![p] =
                          [a EXCEPT !.pc = "rollback",
                                    !.undo = [j \in 1..(a.i - 1) |-> j]]]
                   /\ ReportCall(a.r.requestID)
    /\ UNCHANGED <<usedIds, hist, listing>>

\* the next compensating delete of an approval that failed; after the last, the
\* command reports its error
ApprovalRollbackStep(p) ==
    /\ approvals[p].pc = "rollback"
    /\ LET a == approvals[p]
       IN  /\ SetStore(approvalUndo(Store, a.r, Head(a.undo)))
           /\ approvals' = [approvals EXCEPT ![p] =
                  [a EXCEPT !.undo = Tail(a.undo),
                            !.pc = IF Tail(a.undo) = <<>> THEN "failed" ELSE "rollback"]]
           /\ IF Tail(a.undo) = <<>>
              THEN Report("approveAccessRequest", <<"error">>, {a.r.requestID}, FALSE)
              ELSE ReportCall(a.r.requestID)
    /\ UNCHANGED <<usedIds, hist, listing>>

\* the end of a successful approval: delete the AccessRequest, report success
ApprovalFinishStep(p) ==
    /\ approvals[p].pc = "finish"
    /\ LET a == approvals[p]
       IN  /\ SetStore(finishApproval(Store, a.r, FALSE).st)
           /\ approvals' = [approvals EXCEPT ![p] = [a EXCEPT !.pc = "done"]]
           /\ Report("approveAccessRequest", finishApproval(Store, a.r, FALSE).log,
                     {a.r.requestID}, FALSE)
    /\ UNCHANGED <<usedIds, hist, listing>>

----------------------------------------------------------------------------
(* Cleanup Reconciler (internal/controller/cleanup_controller.go) *)

\* the clone a partial AccessRequest owns: its stored name and its namespace
OwnedClone(r) ==
    IF r.status = "PendingTarget"
    THEN [name |-> r.sourceCloneName, ns |-> r.source[1]]
    ELSE [name |-> r.targetCloneName, ns |-> r.target[1]]

\* the API call of a pass that fails, if any.  "svcdelete": the Service deletes of
\* deleteClonedServices fail (logged, not returned)
ReconcileFaults == {"none", "update", "get", "delete", "list", "svcdelete"}

\* a variant that takes a failed delete for a done one
cleanupPartialAccessLenient(st, r, fault) ==
    LET own == OwnedClone(r)
    IN  IF ~IsPartial(r.status) \/ fault = "delete" THEN [err |-> FALSE, st |-> st]
        ELSE [err |-> FALSE, st |-> DeleteAccess(st, own.ns, AccessName(own.name), FALSE)]

\* cleanupPartialAccess: delete the single Access a partial request owns
cleanupPartialAccess(st, r, fault) ==
    LET own == OwnedClone(r)
    IN  IF ~IsPartial(r.status) THEN [err |-> FALSE, st |-> st]
        ELSE IF own.name = "" \/ own.ns = "" THEN [err |-> FALSE, st |-> st]
        ELSE IF fault = "delete" THEN [err |-> TRUE, st |-> st]
        ELSE [err |-> FALSE, st |-> DeleteAccess(st, own.ns, AccessName(own.name), FALSE)]

\* a variant that deletes an orphaned request without holding the request finalizer
reconcileAccessRequestUnheld(st, r, fault) ==
    LET c == cleanupPartialAccess(st, r, fault)
        own == OwnedClone(r)
    IN  IF r.del THEN
            [err |-> c.err,
             st |-> IF c.err THEN st ELSE [c.st EXCEPT !.req = K8sRemoveFinalizer(@, r)]]
        ELSE IF IsPartial(r.status) /\ At(st.acc, own.ns, AccessName(own.name)) = {}
        THEN [err |-> FALSE, st |-> [st EXCEPT !.req = K8sDelete(@, {r})]]
        ELSE [err |-> FALSE, st |-> [st EXCEPT !.req = K8sAddFinalizer(@, r)]]

\* reconcileAccessRequest: hold the request finalizer; on deletion clean up the
\* partial access and release it; delete a partial request whose Access is gone
reconcileAccessRequest(st, r, fault) ==
    IF ~r.del THEN
        LET r1 == [r EXCEPT !.fin = TRUE]
            st1 == IF r.fin THEN st ELSE [st EXCEPT !.req = K8sAddFinalizer(@, r)]
            own == OwnedClone(r)
        IN  IF ~r.fin /\ fault = "update" THEN [err |-> TRUE, st |-> st]
            ELSE IF ~IsPartial(r.status) THEN [err |-> FALSE, st |-> st1]
            ELSE IF fault = "get" THEN [err |-> TRUE, st |-> st1]
            ELSE IF At(st1.acc, own.ns, AccessName(own.name)) # {}
                 THEN [err |-> FALSE, st |-> st1]
            ELSE IF fault = "delete" THEN [err |-> TRUE, st |-> st1]
            ELSE [err |-> FALSE, st |-> [st1 EXCEPT !.req = K8sDelete(@, {r1})]]
    ELSE IF r.fin THEN
        LET c == cleanupPartialAccess(st, r, fault)
        IN  IF c.err THEN [err |-> TRUE, st |-> st]
            ELSE IF fault = "update" THEN [err |-> TRUE, st |-> c.st]
            ELSE [err |-> FALSE, st |-> [c.st EXCEPT !.req = K8sRemoveFinalizer(@, r)]]
    ELSE [err |-> FALSE, st |-> st]

\* a variant whose list is not restricted to the request id's label
deleteClonedServicesUnselected(st, reqID, fault) ==
    IF fault = "list" THEN [err |-> TRUE, st |-> st]
    ELSE IF fault = "svcdelete" THEN [err |-> FALSE, st |-> st]
    ELSE [err |-> FALSE, st |-> [st EXCEPT !.svc = {}]]

\* deleteClonedServices: list the Services labelled with the request id, delete
\* each; a failed delete is logged and the function still returns nil
deleteClonedServices(st, reqID, fault) ==
    IF fault = "list" THEN [err |-> TRUE, st |-> st]
    ELSE IF fault = "svcdelete" THEN [err |-> FALSE, st |-> st]
    ELSE [err |-> FALSE, st |-> [st EXCEPT !.svc = @ \ Labelled(@, reqID)]]

\* a variant that writes the finalizer of a live object on every pass
reconcileAccessFinalizerEager(st, kind, obj, fault) ==
    IF ~obj.del THEN
        IF fault = "update" THEN [err |-> TRUE, st |-> st]
        ELSE [err |-> FALSE, st |-> [st EXCEPT ![kind] = K8sAddFinalizer(@, obj)]]
    ELSE IF obj.fin THEN
        LET d == deleteClonedServices(st, obj.reqid, fault)
        IN  IF d.err THEN [err |-> TRUE, st |-> st]
            ELSE IF fault = "update" THEN [err |-> TRUE, st |-> d.st]
            ELSE [err |-> FALSE, st |-> [d.st EXCEPT ![kind] = K8sRemoveFinalizer(@, obj)]]
    ELSE [err |-> FALSE, st |-> st]

\* a variant that returns the not-found of the finalizer removal as an error
reconcileAccessFinalizerStrict(st, kind, obj, fault) ==
    IF ~obj.del THEN
        IF obj.fin THEN [err |-> FALSE, st |-> st]
        ELSE IF fault = "update" THEN [err |-> TRUE, st |-> st]
        ELSE [err |-> FALSE, st |-> [st EXCEPT ![kind] = K8sAddFinalizer(@, obj)]]
    ELSE IF obj.fin THEN
        LET d == deleteClonedServices(st, obj.reqid, fault)
        IN  IF d.err THEN [err |-> TRUE, st |-> st]
            ELSE IF fault = "update" THEN [err |-> TRUE, st |-> d.st]
            ELSE IF fault = "gone" THEN [err |-> TRUE, st |-> [d.st EXCEPT ![kind] = @ \ {obj}]]
            ELSE [err |-> FALSE, st |-> [d.st EXCEPT ![kind] = K8sRemoveFinalizer(@, obj)]]
    ELSE [err |-> FALSE, st |-> st]

\* reconcileAccessFinalizer, for an Access (kind "acc") or ExternalAccess ("ext").
\* Fault "gone": somebody else removed the object after the pass read it, and the
\* Update that removes the finalizer returns not-found.
reconcileAccessFinalizer(st, kind, obj, fault) ==
    IF ~obj.del THEN
        IF obj.fin THEN [err |-> FALSE, st |-> st]
        ELSE IF fault = "update" THEN [err |-> TRUE, st |-> st]
        ELSE [err |-> FALSE, st |-> [st EXCEPT ![kind] = K8sAddFinalizer(@, obj)]]
    ELSE IF obj.fin THEN
        LET d == deleteClonedServices(st, obj.reqid, fault)
        IN  IF d.err THEN [err |-> TRUE, st |-> st]
            ELSE IF fault = "update" THEN [err |-> TRUE, st |-> d.st]
            ELSE IF fault = "gone" THEN [err |-> FALSE, st |-> [d.st EXCEPT ![kind] = @ \ {obj}]]
            ELSE [err |-> FALSE, st |-> [d.st EXCEPT ![kind] = K8sRemoveFinalizer(@, obj)]]
    ELSE [err |-> FALSE, st |-> st]

\* the keys the watches can enqueue
Keys == { KeyOf(o) : o \in requests \cup accesses \cup extaccesses }

\* Reconcile: AccessRequest first, then Access, then ExternalAccess
ReconcilePass(st, key, fault) ==
    IF At(st.req, key.ns, key.name) # {} THEN
        reconcileAccessRequest(st, CHOOSE r \in At(st.req, key.ns, key.name) : TRUE, fault)
    ELSE IF At(st.acc, key.ns, key.name) # {} THEN
        reconcileAccessFinalizer(st, "acc", CHOOSE a \in At(st.acc, key.ns, key.name) : TRUE,
                                 fault)
    ELSE IF At(st.ext, key.ns, key.name) # {} THEN
        reconcileAccessFinalizer(st, "ext", CHOOSE e \in At(st.ext, key.ns, key.name) : TRUE,
                                 fault)
    ELSE [err |-> FALSE, st |-> st]

\* the deleting Access or ExternalAccess under a key that holds the cleanup finalizer
HeldDeclarations(st, key) ==
    { d \in At(st.acc, key.ns, key.name) \cup At(st.ext, key.ns, key.name) :
        d.del /\ d.fin }

\* the faults of a pass over a key: the object can have been removed by somebody
\* else in the middle of the pass that releases it
PassFaults(st, key) ==
    ReconcileFaults \cup {x \in {"gone"} : HeldDeclarations(st, key) # {}}

\* what a pass met: "cloneDeleteFailed", the delete of a Service clone failed inside
\* deleteClonedServices; "partialCleanup", it cleaned up after a deleting partial
\* AccessRequest and released it; "alreadyGone", the Update that removes the cleanup
\* finalizer found the object gone
ReconcileNotes(st, key, fault) ==
    {x \in {"alreadyGone"} : fault = "gone"} \cup
    {x \in {"cloneDeleteFailed"} :
        fault = "svcdelete"
        /\ \E d \in HeldDeclarations(st, key) : Labelled(st.svc, d.reqid) # {}}
    \cup {x \in {"partialCleanup"} :
            fault \notin {"delete", "update"}
            /\ \E r \in At(st.req, key.ns, key.name) :
                  r.del /\ r.fin /\ IsPartial(r.status)}

Reconcile ==
    \E key \in Keys :
      \E fault \in PassFaults(Store, key) :
        LET res == ReconcilePass(Store, key, fault)
        IN  /\ res.st # Store
            /\ SetStore(res.st)
            /\ ReportNoted("reconcile", IF res.err THEN <<"error">> ELSE <<>>, {}, FALSE,
                           ReconcileNotes(Store, key, fault))
            /\ UNCHANGED <<usedIds, hist, approvals, listing>>

\* mapAccessToAccessRequest: the AccessRequests with the request id of an Access that
\* changed are listed and the first is enqueued; a failed List is written to the
\* server log ("logError") and nothing is enqueued.  The function has no error result.
mapAccessToAccessRequest(st, o, listFails) ==
    LET items == { r \in st.req : r.requestID = o.reqid }
    IN  IF listFails THEN [enqueued |-> {}, log |-> <<"logError">>]
        ELSE IF items # {} THEN [enqueued |-> {KeyOf(CHOOSE r \in items : TRUE)}, log |-> <<>>]
        ELSE [enqueued |-> {}, log |-> <<>>]

\* a watch event of an Access reaches the mapping function
AccessEvent ==
    \E a \in accesses, listFails \in BOOLEAN :
        LET res == mapAccessToAccessRequest(Store, a, listFails)
        IN  /\ ReportNoted("mapAccessToAccessRequest", res.log, {a.reqid}, FALSE,
                           {x \in {"listFailed"} : listFails}
                           \cup {x \in {"enqueued"} : res.enqueued # {}})
            /\ UNCHANGED <<services, accesses, extaccesses, requests, usedIds, hist, approvals, listing>>

----------------------------------------------------------------------------
(* denyAccessRequest *)

\* a variant that takes a review that could not be made for an allowed one
CanPerformActionLenient(out) ==
    CASE out = "deny" -> "false" [] OTHER -> "true"

\* CanPerformAction: one SubjectAccessReview
CanPerformAction(out) ==
    CASE out = "allow" -> "true" [] out = "deny" -> "false" [] OTHER -> "error"

handleDenyAccessRequest ==
    \E name \in RequestNames, user \in Users :
        IF At(requests, "", name) = {} THEN
            /\ Report("denyAccessRequest", <<"error">>, {}, FALSE)
            /\ UNCHANGED <<services, accesses, extaccesses, requests, usedIds, hist, approvals, listing>>
        ELSE
            LET r == CHOOSE x \in At(requests, "", name) : TRUE
                isOwner == user = r.requestor
                own == OwnedClone(r)
            IN  \E out \in Outcomes, accessFails \in BOOLEAN, requestFails \in BOOLEAN :
                LET canDeny == CanPerformAction(out)
                    cleanupErr == IsPartial(r.status) /\ accessFails
                    st1 == IF IsPartial(r.status)
                           THEN DeleteAccess(Store, own.ns, AccessName(own.name), accessFails)
                           ELSE Store
                    st2 == DeleteAccessRequestAsApp(st1, name, requestFails)
                    deleted == st1.acc # accesses
                    \* the caller is the requestor, or the review allowed the delete
                    entitled == isOwner \/ out = "allow"
                IN  /\ isOwner => out = "allow"
                    /\ ~IsPartial(r.status) => ~accessFails
                    /\ UNCHANGED <<usedIds, approvals, listing>>
                    /\ IF ~isOwner /\ canDeny # "true" THEN
                           /\ ~accessFails /\ ~requestFails
                           /\ Report("denyAccessRequest", PermLog(canDeny), {r.requestID},
                                     entitled)
                           /\ UNCHANGED <<services, accesses, extaccesses, requests, hist>>
                       ELSE
                           /\ SetStore(st2)
                           /\ hist' = [hist EXCEPT ![r.requestID] =
                                         @ \cup {x \in {"declDeleted"} : deleted}
                                           \cup {x \in {"deniedPartial"} :
                                                   ~requestFails /\ IsPartial(r.status)}
                                           \cup {x \in {"deniedFull"} :
                                                   ~requestFails /\ ~IsPartial(r.status)}]
                           /\ Report("denyAccessRequest",
                                     (IF cleanupErr THEN <<"cleanupError">> ELSE <<>>)
                                       \o (IF requestFails THEN <<"error">> ELSE <<"warning">>),
                                     {r.requestID}, entitled)

----------------------------------------------------------------------------
(* revokeClusterAccess, revokeExternalAccess, and deletion behind netwatch's back *)

\* the keys of the Access Declarations a direct grant under this id creates
GrantedAccessKeys(id) ==
    UNION { { [ns |-> o[1], name |-> AccessName(HashedCloneName(o[2], id))],
              [ns |-> o[1], name |-> AccessName(LongCloneName(o[2], id))] } :
            o \in Originals }

\* the key of the ExternalAccess a direct grant under this id creates
GrantedExternalKeys(id) ==
    { [ns |-> SvcA[1], name |-> ExternalAccessName(HashedCloneName(SvcA[2], id))] }

\* the namespace/name a revoke command can be given: a stored object's, one that a
\* grant created earlier, or none's
AccessKeys ==
    { KeyOf(a) : a \in accesses } \cup {[ns |-> "team-a", name |-> "access-none"]}
    \cup UNION { GrantedAccessKeys(id) : id \in usedIds }

ExternalAccessKeys ==
    { KeyOf(e) : e \in extaccesses } \cup {[ns |-> "team-a", name |-> "ea-none"]}
    \cup UNION { GrantedExternalKeys(id) : id \in usedIds }

\* a variant that stops at the first deletion that fails
deleteAccessPairFailFast(accs, toDelete, failing) ==
    IF toDelete \cap failing # {} THEN accs ELSE K8sDelete(accs, toDelete)

\* the deletion loop of handleRevokeClusterAccess: every listed Access is deleted,
\* those in failing excepted, whose delete call fails
deleteAccessPair(accs, toDelete, failing) == K8sDelete(accs, toDelete \ failing)

\* handleRevokeClusterAccess: get the named Access, list the Accesses of its request
\* id, delete each, report the failures together
revokeClusterAccess(st, key, listFails, failing) ==
    LET found == At(st.acc, key.ns, key.name)
        reqID == (CHOOSE a \in found : TRUE).reqid
        accessesToDelete == Labelled(st.acc, reqID)
    IN  IF found = {} THEN
            [st |-> st, log |-> <<"error">>, ids |-> {}, deleted |-> {}]
        ELSE IF listFails THEN
            [st |-> st, log |-> <<"error">>, ids |-> {reqID}, deleted |-> {}]
        ELSE
            [st |-> [st EXCEPT !.acc = deleteAccessPair(@, accessesToDelete, failing)],
             log |-> OkLog(accessesToDelete \cap failing = {}),
             ids |-> {reqID},
             deleted |-> accessesToDelete \ failing]

\* handleRevokeExternalAccess: delete the named ExternalAccess; any error of the
\* delete call, not-found included, is reported
revokeExternalAccess(st, key, fails) ==
    LET found == At(st.ext, key.ns, key.name)
    IN  [st |-> DeleteExternalAccess(st, key.ns, key.name, fails),
         log |-> OkLog(found # {} /\ ~fails),
         ids |-> { e.reqid : e \in found },
         deleted |-> IF fails THEN {} ELSE found]

\* the history tags of a revoke command, per correlation id
RevokeTags(res, id) ==
    {x \in {"declDeleted"} : id \in res.ids /\ res.deleted # {}}
    \cup {x \in {"revoked"} : id \in res.ids /\ ~Failed(res.log)}

\* what a revoke command met: "aroundFailure", a delete call failed and another
\* object was deleted all the same; "again", the named object is not there and is
\* one that a grant (of the ids granted) created and a revoke removed
RevokeNotes(res, failing, granted) ==
    {x \in {"aroundFailure"} : failing # {} /\ res.deleted # {}}
    \cup {x \in {"again"} :
            res.ids = {} /\ \E id \in granted : "revoked" \in hist[id]}

handleRevokeClusterAccess ==
    \E key \in AccessKeys, listFails \in BOOLEAN :
        LET found == At(accesses, key.ns, key.name)
            pair == UNION { Labelled(accesses, a.reqid) : a \in found }
            granted == { id \in usedIds : key \in GrantedAccessKeys(id) }
        IN  \E failing \in SUBSET pair :
            LET res == revokeClusterAccess(Store, key, listFails, failing)
            IN  /\ found = {} => ~listFails
                /\ listFails => failing = {}
                /\ SetStore(res.st)
                /\ hist' = [id \in DOMAIN hist |-> hist[id] \cup RevokeTags(res, id)]
                /\ ReportNoted("revokeClusterAccess", res.log, res.ids, FALSE,
                               RevokeNotes(res, failing, granted))
                /\ UNCHANGED <<usedIds, approvals, listing>>

handleRevokeExternalAccess ==
    \E key \in ExternalAccessKeys, fails \in BOOLEAN :
        LET found == At(extaccesses, key.ns, key.name)
            granted == { id \in usedIds : key \in GrantedExternalKeys(id) }
            res == revokeExternalAccess(Store, key, fails)
        IN  /\ found = {} => ~fails
            /\ SetStore(res.st)
            /\ hist' = [id \in DOMAIN hist |-> hist[id] \cup RevokeTags(res, id)]
            /\ ReportNoted("revokeExternalAccess", res.log, res.ids, FALSE,
                           RevokeNotes(res, {}, granted))
            /\ UNCHANGED <<usedIds, approvals, listing>>

\* an Access or ExternalAccess is deleted by someone else than netwatch (kubectl,
\* the maxtac controller at expiry)
DeleteDeclaration ==
    \E kind \in {"acc", "ext"} :
        \E d \in Store[kind] :
            /\ ~d.del
            /\ SetStore([Store EXCEPT ![kind] = K8sDelete(@, {d})])
            /\ hist' = Tag(hist, d.reqid, "declDeleted")
            /\ Report("deleteDeclaration", <<>>, {d.reqid}, FALSE)
            /\ UNCHANGED <<usedIds, approvals, listing>>

----------------------------------------------------------------------------
(* Read-model aggregator (internal/handlers/api_handlers.go) *)

\* strings.Index(s, old): the position of the first occurrence of old in s, 0 if none
Index(s, old) ==
    LET hits == { i \in 1..(Len(s) + 1) :
                     i + Len(old) <= Len(s) + 1 /\ SubSeq(s, i, i + Len(old) - 1) = old }
    IN  IF hits = {} THEN 0 ELSE CHOOSE i \in hits : \A j \in hits : i <= j

\* strings.Replace(s, old, "", 1): s without the first occurrence of old
ReplaceFirst(s, old) ==
    LET i == Index(s, old)
    IN  IF old = "" \/ i = 0 THEN s
        ELSE SubSeq(s, 1, i - 1) \o SubSeq(s, i + Len(old), Len(s))

\* the remote service name shown for a pending access: the target's ServiceName
\* without "netwatch-clone-" and without "-" followed by the request id's suffix
StripCloneName(serviceName, reqID) ==
    ReplaceFirst(ReplaceFirst(serviceName, "netwatch-clone-"), "-" \o randSuffix(reqID))

\* targetSvcString and info.Target of a pending access
PendingTarget(target, reqID) ==
    Ref(target.ns, StripCloneName(target.name, reqID)) \o " (Pending Approval)"

\* expiresAt is -1 (the access does not expire) when Spec.Duration is empty
NeverExpires(duration) == duration = ""

\* the row of one listed Access, clones being the Services that carry its request id
ServiceRow(access, clones) ==
    LET named == { c \in clones : c.name = access.target.name /\ c.ns = access.target.ns }
        tgt == CHOOSE c \in named : TRUE
        src == CHOOSE c \in clones \ {tgt} : TRUE
        one == CHOOSE c \in clones : TRUE
    IN  [type |-> "Service", name |-> access.name, ns |-> access.ns,
         reqid |-> access.reqid,
         unbounded |-> NeverExpires(access.duration), direction |-> access.direction,
         status |-> IF Cardinality(clones) = 2 THEN "Active" ELSE "Pending",
         source |-> IF Cardinality(clones) = 1 THEN one.origin
                    ELSE IF named = {} THEN "" ELSE src.origin,
         target |-> IF Cardinality(clones) = 1 THEN PendingTarget(access.target, access.reqid)
                    ELSE IF named = {} THEN "" ELSE tgt.origin]

\* the row of one listed ExternalAccess
ExternalRow(access, clones) ==
    [type |-> "External", name |-> access.name, ns |-> access.ns, reqid |-> access.reqid,
     unbounded |-> NeverExpires(access.duration), direction |-> access.direction,
     status |-> "Active", source |-> access.cidr,
     target |-> IF Cardinality(clones) = 1 THEN (CHOOSE c \in clones : TRUE).origin
                ELSE Ref(access.ns, "* (label)")]

\* the request ids whose Accesses are shown: those with one or two clones
ShownIds(st) ==
    { a.reqid : a \in { x \in st.acc : Cardinality(Labelled(st.svc, x.reqid)) \in {1, 2} } }

\* processedAccesses[reqID] = info: of the Accesses that share a request id the one
\* listed last stays.  The order of the list is the API server's: any of them can.
ListedLast(st) ==
    { f \in [ShownIds(st) -> st.acc] : \A id \in ShownIds(st) : f[id].reqid = id }

\* GetActiveAccesses: the rows of the answer.  When the list of the Services fails
\* the answer is empty; when a list of declarations fails its rows are left out.
ActiveAccessRows(st, kept, svcFails, accFails, extFails) ==
    IF svcFails THEN {}
    ELSE { ServiceRow(kept[id], Labelled(st.svc, id)) : id \in { i \in ShownIds(st) : ~accFails } }
         \cup { ExternalRow(e, Labelled(st.svc, e.reqid)) : e \in { x \in st.ext : ~extFails } }

\* GET /active-accesses: every path answers 200
GetActiveAccesses ==
    \E kept \in ListedLast(Store), svcFails \in BOOLEAN, accFails \in BOOLEAN,
       extFails \in BOOLEAN :
        /\ (svcFails => ~accFails /\ ~extFails)
        /\ last' = [cmd |-> "GetActiveAccesses", log |-> <<>>,
                    ids |-> { a.reqid : a \in accesses }, authorized |-> FALSE,
                    sides |-> {}, checks |-> <<>>, verdict |-> "200",
                    notes |-> {x \in {"listFailed"} : svcFails \/ accFails \/ extFails},
                    rows |-> ActiveAccessRows(Store, kept, svcFails, accFails, extFails)]
        /\ UNCHANGED <<services, accesses, extaccesses, requests, usedIds, hist, approvals, listing>>

\* the name of a Service that is not of netwatch's making
StrayName == "copy"

\* a Service that carries the request-id label of a grant is created by someone else
\* than netwatch (a clone copied with its labels)
CopyClone ==
    \E c \in { x \in services : x.reqid # NoLabel } :
        /\ At(services, c.ns, StrayName) = {}
        /\ services' = services \cup {NewService(c.ns, StrayName, c.reqid, c.origin)}
        /\ Report("copyClone", <<>>, {c.reqid}, FALSE)
        /\ UNCHANGED <<accesses, extaccesses, requests, usedIds, hist, approvals, listing>>

\* the words Service names are made of here, and the largest number of parts,
\* joined by "-", of one name
NameWords == {"svc1", "db", "netwatch-clone"}

MaxSegments == 3

\* the parts of a name: a word, or the digits that are the suffix of a uuid
NameParts == NameWords \cup { randSuffix(id) : id \in IdPool }

RECURSIVE JoinDash(_)
JoinDash(parts) ==
    IF Len(parts) = 1 THEN parts[1] ELSE parts[1] \o "-" \o JoinDash(Tail(parts))

\* Service names (DNS labels: they start with a letter)
ServiceNames ==
    { JoinDash(ps) : ps \in UNION { { q \in [1..n -> NameParts] : q[1] \in NameWords } :
                                     n \in 1..MaxSegments } }

\* the target that createPartialAccess stores for the remote service ns/name under
\* the request id, and what GetActiveAccesses shows for it while one clone exists
ShowPendingTarget ==
    \E ns \in {SvcB[1]}, name \in ServiceNames, id \in DOMAIN hist :
        LET target == [ns |-> ns, name |-> LongCloneName(name, id)]
        IN  /\ last' = [cmd |-> "pendingTarget", log |-> <<>>, ids |-> {id},
                        authorized |-> FALSE, sides |-> {}, checks |-> <<ns, name>>,
                        verdict |-> PendingTarget(target, id), notes |-> {}, rows |-> {}]
            /\ UNCHANGED <<services, accesses, extaccesses, requests, usedIds, hist, approvals, listing>>

----------------------------------------------------------------------------
(* GET /pending-requests (internal/handlers/api_handlers.go): one goroutine *)
(* per listed AccessRequest, the rows merged through a buffered channel     *)

\* a variant with an unbuffered channel
ResultsCapacityUnbuffered(items) == 0

\* make(chan AccessRequestPayload, len(requestList.Items))
ResultsCapacity(items) == Cardinality(items)

\* the number of permissions a worker asks the oracle for: four for a service
\* request, two for an external one, none when a service reference is malformed
RequiredPerms(r) ==
    IF r.type = "Service"
    THEN IF Len(r.source) = 2 /\ Len(r.target) = 2 THEN 4 ELSE 0
    ELSE IF Len(r.service) = 2 THEN 2 ELSE 0

\* the row sent for a request
PendingRow(r, canSelfApprove) ==
    [requestID |-> r.name, requestor |-> r.requestor, type |-> r.type,
     status |-> r.status, canSelfApprove |-> canSelfApprove]

\* the listed request a worker was started for
ItemOf(n) == CHOOSE r \in listing.items : r.name = n

\* the answer of the query, as the report of the last command
PendingAnswer(code, rows) ==
    [cmd |-> "GetPendingRequests", log |-> <<>>, ids |-> {}, authorized |-> FALSE,
     sides |-> {}, checks |-> <<>>, verdict |-> code, notes |-> {}, rows |-> rows]

\* the handler up to the end of its loop of g.Go: 401 without a valid token, 500
\* when the list fails, else one worker per listed request
GetPendingRequests ==
    /\ listing.pc \in {"idle", "done"}
    /\ \E tokenFails \in BOOLEAN, listFails \in BOOLEAN :
        IF tokenFails \/ listFails THEN
            /\ listing' = NoListing
            /\ last' = PendingAnswer(IF tokenFails THEN "401" ELSE "500", {})
        ELSE
            /\ listing' = [pc |-> "wait", items |-> requests,
                           workers |-> [n \in { r.name : r \in requests } |->
                                           [pc |-> "lookup", verdict |-> "",
                                            canSelfApprove |-> FALSE]],
                           resultsChan |-> <<>>, pendingRequests |-> <<>>]
            /\ last' = PendingAnswer("", {})
    /\ UNCHANGED <<services, accesses, extaccesses, requests, usedIds, hist, approvals>>

\* a worker's permission lookup: canSelfApprove is the oracle's answer, and false
\* when the lookup failed or nothing was to be asked
PendingLookup(n) ==
    /\ listing.pc = "wait"
    /\ listing.workers[n].pc = "lookup"
    /\ \E outs \in PermOutcomes(RequiredPerms(ItemOf(n))) :
        LET verdict == IF RequiredPerms(ItemOf(n)) = 0 THEN "none"
                       ELSE CanPerformAllActions(outs)
        IN  listing' = [listing EXCEPT !.workers[n] =
                           [pc |-> "send", verdict |-> verdict,
                            canSelfApprove |-> (verdict = "true")]]
    /\ UNCHANGED <<services, accesses, extaccesses, requests, usedIds, hist, last, approvals>>

\* a worker's send on the results channel, which blocks while the buffer is full,
\* and its return of nil
PendingSend(n) ==
    /\ listing.pc = "wait"
    /\ listing.workers[n].pc = "send"
    /\ Len(listing.resultsChan) < ResultsCapacity(listing.items)
    /\ listing' = [listing EXCEPT
           !.resultsChan = Append(@, PendingRow(ItemOf(n), listing.workers[n].canSelfApprove)),
           !.workers[n].pc = "returned"]
    /\ UNCHANGED <<services, accesses, extaccesses, requests, usedIds, hist, last, approvals>>

\* g.Wait() returns once every worker has returned; none returns an error, so the
\* channel is closed next
PendingWait ==
    /\ listing.pc = "wait"
    /\ \A n \in DOMAIN listing.workers : listing.workers[n].pc = "returned"
    /\ listing' = [listing EXCEPT !.pc = "drain"]
    /\ UNCHANGED <<services, accesses, extaccesses, requests, usedIds, hist, last, approvals>>

\* the orders sort.Slice can leave the rows in: the creation timestamps are not
\* part of the model, and the sort is not stable
SortedByTimestamp(rows) ==
    { [i \in DOMAIN rows |-> rows[p[i]]] :
        p \in { f \in [DOMAIN rows -> DOMAIN rows] :
                  \A i, j \in DOMAIN rows : f[i] = f[j] => i = j } }

\* the drain of the closed channel, the sort and the answer 200
PendingRespond ==
    /\ listing.pc = "drain"
    /\ \E sorted \in SortedByTimestamp(listing.resultsChan) :
        /\ listing' = [listing EXCEPT !.pc = "done", !.resultsChan = <<>>,
                                      !.pendingRequests = sorted]
        /\ last' = PendingAnswer("200", { sorted[i] : i \in DOMAIN sorted })
    /\ UNCHANGED <<services, accesses, extaccesses, requests, usedIds, hist, approvals>>

\* the steps of a query in flight
PendingSteps ==
    \/ \E n \in DOMAIN listing.workers : PendingLookup(n) \/ PendingSend(n)
    \/ PendingWait
    \/ PendingRespond

\* the reconciler has nothing left to do: no pass over any key changes the cluster
Converged == \A key \in Keys : ReconcilePass(Store, key, "none").st = Store

----------------------------------------------------------------------------
(* Properties *)

\* the namespaces of a set of objects
Namespaces(objs) == { o.ns : o \in objs }

\* C1: every requestClusterAccess that completes successfully has created, in
\* total, exactly two Service clones and two Access Declarations, one of each per
\* side, all four carrying one single correlation id.
C1_OnePairPerCommand ==
    (last.cmd = "requestClusterAccess" /\ last.log # <<>> /\ ~Failed(last.log)) =>
        /\ Cardinality(last.ids) = 1
        /\ \A id \in last.ids :
            /\ Cardinality(ClonesOf(id)) = 2
            /\ Cardinality(Labelled(accesses, id)) = 2
            /\ Namespaces(ClonesOf(id)) = {SvcA[1], SvcB[1]}
            /\ Namespaces(Labelled(accesses, id)) = {SvcA[1], SvcB[1]}

\* a requestClusterAccess reported only successes and four clones carry its ids
C1_Witness ==
    /\ last.cmd = "requestClusterAccess"
    /\ last.log = <<"success", "success">>
    /\ Cardinality(UNION { ClonesOf(id) : id \in last.ids }) = 4
    /\ Cardinality(UNION { Labelled(accesses, id) : id \in last.ids }) = 4

\* C2: once a partial request was approved successfully and the reconciler has
\* nothing left to do, exactly two clones and two Access Declarations carry the
\* request id and the AccessRequest is gone.
C2_ApprovedPartialComplete ==
    \A id \in IdPool :
        ( /\ Converged
          /\ "partialApproved" \in hist[id]
          /\ hist[id] \cap {"declDeleted", "deniedPartial", "approveDeleteFailed"} = {} ) =>
            /\ Cardinality(ClonesOf(id)) = 2
            /\ Cardinality(Labelled(accesses, id)) = 2
            /\ RequestsOf(id) = {}

\* a partial request was approved, the reconciler is done, and one of the two
\* Access Declarations is missing although nobody deleted one
C2_Witness ==
    \E id \in IdPool :
        /\ Converged
        /\ "partialApproved" \in hist[id]
        /\ hist[id] \cap {"declDeleted", "deniedPartial", "approveDeleteFailed"} = {}
        /\ Cardinality(Labelled(accesses, id)) = 1
        /\ RequestsOf(id) = {}

C4_NoGrantWithoutPermission ==
    [][ (last'.cmd \in {"requestClusterAccess", "requestExternalAccess"}
           /\ ~last'.authorized)
        => ( /\ UNCHANGED <<services, accesses, extaccesses, requests>>
             /\ Failed(last'.log) ) ]_vars

\* a direct grant was just rejected because the oracle denied, or failed on, a check
C4_Witness ==
    /\ last.cmd \in {"requestClusterAccess", "requestExternalAccess"}
    /\ ~last.authorized
    /\ Entries(last.log) \cap {"permissionDenied", "permissionError"} # {}

\* C5: once a declaration carrying a correlation id was deleted (revoke, deny, or
\* behind netwatch's back) and the reconciler has nothing left to do, no Service
\* clone carries that id and no declaration of it is left marked for deletion.
C5_CascadeComplete ==
    \A id \in IdPool :
        (Converged /\ "declDeleted" \in hist[id]) =>
            /\ ClonesOf(id) = {}
            /\ \A d \in DeclarationsOf(id) : ~d.del

\* a declaration was deleted, the reconciler is done, and a clone of its id is left
C5_Witness ==
    \E id \in IdPool :
        /\ Converged
        /\ "declDeleted" \in hist[id]
        /\ DeclarationsOf(id) = {}
        /\ ClonesOf(id) # {}

\* C6: after a submitAccessRequest that stored a request in a partial status,
\* exactly one clone and one Access Declaration carry the request id, both in the
\* namespace of a side the oracle allowed, and the status is PendingTarget iff they
\* are the source side's, PendingSource iff the target side's.
C6_PartialSubmission ==
    (last.cmd = "submitAccessRequest" /\ last.log = <<"success">>) =>
        \A id \in last.ids : \A r \in RequestsOf(id) :
            IsPartial(r.status) =>
                LET objs == ClonesOf(id) \cup Labelled(accesses, id)
                IN  /\ Cardinality(ClonesOf(id)) = 1
                    /\ Cardinality(Labelled(accesses, id)) = 1
                    /\ r.status = "PendingTarget" <=>
                         (Namespaces(objs) = {r.source[1]} /\ "source" \in last.sides)
                    /\ r.status = "PendingSource" <=>
                         (Namespaces(objs) = {r.target[1]} /\ "target" \in last.sides)

\* a submission just stored a PendingSource request next to its target-side pair
C6_Witness ==
    /\ last.cmd = "submitAccessRequest"
    /\ last.log = <<"success">>
    /\ \E id \in last.ids : \E r \in RequestsOf(id) :
        /\ r.status = "PendingSource"
        /\ Namespaces(ClonesOf(id)) = {r.target[1]}
        /\ Namespaces(Labelled(accesses, id)) = {r.target[1]}

\* C7: right after the approval of a partial request, every Access Declaration of
\* the request id names as its target a Service clone of that id that exists.
C7_TargetsExist ==
    (last.cmd = "approveAccessRequest" /\ last.log = <<"success">>) =>
        \A id \in last.ids :
            "partialApproved" \in hist[id] =>
                \A a \in Labelled(accesses, id) :
                    \E c \in ClonesOf(id) : c.name = a.target.name /\ c.ns = a.target.ns

\* a partial request was just approved and both sides' pairs exist
C7_Witness ==
    /\ last.cmd = "approveAccessRequest"
    /\ last.log = <<"success">>
    /\ \E id \in last.ids :
        /\ "partialApproved" \in hist[id]
        /\ Cardinality(Labelled(accesses, id)) = 2
        /\ Cardinality(ClonesOf(id)) = 2

\* a partial request, not being deleted, whose Access Declaration does not exist
Orphaned(r) ==
    /\ IsPartial(r.status)
    /\ ~r.del
    /\ At(accesses, OwnedClone(r).ns, AccessName(OwnedClone(r).name)) = {}

\* C8 as stated: one reconcile pass over an orphaned partial request removes it.
C8_GoneAfterOnePass ==
    \A r \in requests :
        Orphaned(r) => At(reconcileAccessRequest(Store, r, "none").st.req, "", r.name) = {}

\* C8: one reconcile pass over an orphaned partial request issues its deletion,
\* which leaves it marked for deletion under the request finalizer; the next pass
\* over it removes it.
C8_GoneAfterTwoPasses ==
    \A r \in requests :
        Orphaned(r) =>
            LET p1 == reconcileAccessRequest(Store, r, "none")
                left == At(p1.st.req, "", r.name)
            IN  /\ ~p1.err
                /\ left # {}
                /\ \A r1 \in left :
                    /\ r1.del /\ r1.fin
                    /\ At(reconcileAccessRequest(p1.st, r1, "none").st.req, "", r.name) = {}

\* the pass over an orphaned request has run: the request is still there, marked
C8_Witness ==
    /\ last.cmd = "reconcile"
    /\ \E r \in requests :
        /\ IsPartial(r.status) /\ r.del /\ r.fin
        /\ "declDeleted" \in hist[r.requestID]
        /\ hist[r.requestID] \cap {"deniedPartial", "partialApproved"} = {}
        /\ Labelled(accesses, r.requestID) = {}

\* C9: once a partial request was denied or aborted and the reconciler has nothing
\* left to do, nothing of the request is left: no Access Declaration, no Service
\* clone, no AccessRequest.
C9_DeniedPartialLeavesNothing ==
    \A id \in IdPool :
        ( /\ Converged
          /\ "deniedPartial" \in hist[id]
          /\ hist[id] \cap {"partialApproved", "partialApproveFailed"} = {} ) =>
            /\ Labelled(accesses, id) = {}
            /\ ClonesOf(id) = {}
            /\ RequestsOf(id) = {}

\* a partial request was denied, the reconciler is done, and its clone is left
C9_Witness ==
    \E id \in IdPool :
        /\ Converged
        /\ "deniedPartial" \in hist[id]
        /\ hist[id] \cap {"partialApproved", "partialApproveFailed"} = {}
        /\ Labelled(accesses, id) = {}
        /\ RequestsOf(id) = {}
        /\ ClonesOf(id) # {}

\* C10: when denyAccessRequest failed to delete the Access Declaration of a partial
\* request, the AccessRequest is left as it was (not deleted, not marked) and the
\* command reports no denial.
C10_RequestKeptOnCleanupError ==
    (last.cmd = "denyAccessRequest" /\ "cleanupError" \in Entries(last.log)) =>
        /\ "warning" \notin Entries(last.log)
        /\ \A id \in last.ids : \E r \in RequestsOf(id) : ~r.del

\* a deny failed to delete the Access Declaration, went on to delete the request,
\* and reported the denial
C10_Witness ==
    /\ last.cmd = "denyAccessRequest"
    /\ last.log = <<"cleanupError", "warning">>
    /\ \A id \in last.ids : \A r \in RequestsOf(id) : r.del

\* C11: a denyAccessRequest whose caller is neither the request's requestor nor
\* allowed by the authorization review to delete the AccessRequest (review denied,
\* or not evaluated) changes no object of the cluster and reports an error.
C11_NoDenyWithoutAuthority ==
    [][ (last'.cmd = "denyAccessRequest" /\ ~last'.authorized)
        => ( /\ UNCHANGED <<services, accesses, extaccesses, requests>>
             /\ Failed(last'.log) ) ]_vars

\* a deny of a stored partial request by somebody else than its requestor was just
\* rejected, the review having denied or failed; the request and its Access stay
C11_Witness ==
    /\ last.cmd = "denyAccessRequest"
    /\ ~last.authorized
    /\ Entries(last.log) \cap {"permissionDenied", "permissionError"} # {}
    /\ \E id \in last.ids : \E r \in RequestsOf(id) :
        /\ IsPartial(r.status) /\ ~r.del
        /\ Labelled(accesses, id) # {}

\* C12: every submitAccessRequest that names its services well and whose create
\* call for the AccessRequest does not fail ends with the AccessRequest stored,
\* whatever the oracle said and whether or not the eager creation of the allowed
\* side succeeded.
C12_RequestAlwaysCreated ==
    \A id \in IdPool :
        (hist[id] \cap {"submitted", "submitAborted"} # {}
           /\ last.cmd = "submitAccessRequest" /\ id \in last.ids) =>
            RequestsOf(id) # {}

\* a submission allowed on one side only just failed to create that side's clone and
\* Access Declaration, and returned without storing an AccessRequest
C12_Witness ==
    /\ last.cmd = "submitAccessRequest"
    /\ Cardinality(last.sides) = 1
    /\ Failed(last.log)
    /\ \E id \in last.ids : "submitAborted" \in hist[id] /\ RequestsOf(id) = {}

\* C13: whenever at least one member check of CanPerformAllActions is denied, the
\* call returns (false, no error), in whatever order the member checks return and
\* whatever the other members' results are.
C13_DeniedWins ==
    (last.cmd = "CanPerformAllActions"
       /\ \E i \in DOMAIN last.checks : last.checks[i] = "deny") =>
        last.verdict = "false"

\* a member check failed with an API error before a denied one returned, and the
\* call returned the error
C13_Witness ==
    /\ last.cmd = "CanPerformAllActions"
    /\ \E i, j \in DOMAIN last.checks :
        i < j /\ last.checks[i] = "error" /\ last.checks[j] = "deny"
    /\ last.verdict = "error"

\* C14: for every requested direction and every way a service-to-service grant is
\* completed (direct creation, approval of a PendingFull, PendingTarget or
\* PendingSource request), the Access Declaration on the source side has direction
\* ingress and the one on the target side egress when ingress was requested, egress
\* and ingress when egress was requested, and both have "all" for any other value.
C14_ReciprocalDirections ==
    \A id \in IdPool : \A d \in WidePayloads.dirs :
        (DirTag(d) \in hist[id] /\ hist[id] \cap {"fullOk", "partialApproved"} # {}) =>
            \A a \in Labelled(accesses, id) :
                a.direction =
                    IF a.ns = SvcA[1]
                    THEN (CASE d = "ingress" -> "ingress" [] d = "egress" -> "egress"
                            [] OTHER -> "all")
                    ELSE (CASE d = "ingress" -> "egress" [] d = "egress" -> "ingress"
                            [] OTHER -> "all")

\* a PendingTarget request for egress was just approved: the source side's Access
\* Declaration of the submission and the target side's of the approval both exist
C14_Witness ==
    /\ last.cmd = "approveAccessRequest"
    /\ last.log = <<"success">>
    /\ \E id \in last.ids :
        /\ {"partialApproved", DirTag("egress")} \subseteq hist[id]
        /\ Namespaces(Labelled(accesses, id)) = {SvcA[1], SvcB[1]}
        /\ \E a \in Labelled(accesses, id) : a.ns = SvcB[1] /\ a.target.name # ""
        /\ \E c \in ClonesOf(id) : c.name = PartialCloneName(SvcB[2], id)

\* C15: when an approval created what was missing and the deletion of the
\* AccessRequest then failed, the approval is reported as successful, the request
\* is still stored, and the clones and declarations the approval created are in
\* place: both sides' for a PendingFull service request, the clone and the
\* ExternalAccess for an external one, the approver's side for a partial request.
C15_NoRollbackOnDeleteFailure ==
    last.cmd = "approveAccessRequest" =>
        \A id \in last.ids :
            "deleteFailed" \in hist[id] =>
            /\ "success" \in Entries(last.log)
            /\ ~Failed(last.log)
            /\ RequestsOf(id) # {}
            /\ \A r \in RequestsOf(id) :
                IF IsPartial(r.status) THEN
                    LET side == IF r.status = "PendingSource" THEN r.source[1]
                                ELSE r.target[1]
                    IN  /\ side \in Namespaces(ClonesOf(id))
                        /\ side \in Namespaces(Labelled(accesses, id))
                ELSE IF r.type = "Service" THEN
                    /\ Namespaces(ClonesOf(id)) = {r.source[1], r.target[1]}
                    /\ Namespaces(Labelled(accesses, id)) = {r.source[1], r.target[1]}
                ELSE
                    /\ Namespaces(ClonesOf(id)) = {r.service[1]}
                    /\ Namespaces(Labelled(extaccesses, id)) = {r.service[1]}

\* the approval of a PendingFull service request created both clones and both
\* Access Declarations, could not delete the request, and reported success
C15_Witness ==
    /\ last.cmd = "approveAccessRequest"
    /\ last.log = <<"logError", "success">>
    /\ \E id \in last.ids :
        /\ "deleteFailed" \in hist[id]
        /\ \E r \in RequestsOf(id) : r.status = "PendingFull" /\ r.type = "Service"
        /\ Cardinality(ClonesOf(id)) = 2
        /\ Cardinality(Labelled(accesses, id)) = 2

\* C16: revokeClusterAccess, once it has listed the Access Declarations of the
\* looked-up correlation id, deletes every one of them whose delete call does not
\* fail, whichever of the other delete calls fail; it reports the failures in one
\* error, and reports success exactly when no delete call failed.
C16_AllDeletionsAttempted ==
    \A a0 \in accesses : \A failing \in SUBSET Labelled(accesses, a0.reqid) :
        LET pair == Labelled(accesses, a0.reqid)
            res == revokeClusterAccess(Store, KeyOf(a0), FALSE, failing)
        IN  /\ \A a \in pair \ failing :
                \A x \in At(res.st.acc, a.ns, a.name) : x.del /\ a.fin
            /\ \A a \in failing : a \in res.st.acc
            /\ \A a \in accesses \ pair : a \in res.st.acc
            /\ (res.log = <<"success">>) <=> (failing = {})
            /\ failing # {} => res.log = <<"error">>

\* a revokeClusterAccess just reported an error for a delete call that failed and
\* deleted another Access Declaration of the same correlation id all the same
C16_Witness ==
    /\ last.cmd = "revokeClusterAccess"
    /\ last.log = <<"error">>
    /\ "aroundFailure" \in last.notes
    /\ \E id \in last.ids :
        /\ \E a \in Labelled(accesses, id) : ~a.del
        /\ Cardinality({ a \in Labelled(accesses, id) : ~a.del }) < 2

\* C17: revoking a second time a declaration that was revoked and is fully deleted
\* reports no error, for revokeExternalAccess and for revokeClusterAccess.
C17_SecondRevokeSucceeds ==
    \A id \in IdPool :
        ("revoked" \in hist[id] /\ DeclarationsOf(id) = {}) =>
            /\ "extOk" \in hist[id] =>
                  \A key \in GrantedExternalKeys(id) :
                      ~Failed(revokeExternalAccess(Store, key, FALSE).log)
            /\ "fullOk" \in hist[id] =>
                  \A key \in GrantedAccessKeys(id) :
                      ~Failed(revokeClusterAccess(Store, key, FALSE, {}).log)

\* an ExternalAccess was revoked and is gone, and a second revokeExternalAccess of
\* the same name just reported an error
C17_Witness ==
    /\ last.cmd = "revokeExternalAccess"
    /\ Failed(last.log)
    /\ "again" \in last.notes
    /\ \E id \in IdPool :
        /\ {"extOk", "revoked"} \subseteq hist[id]
        /\ DeclarationsOf(id) = {}

\* C18: no cluster object is made from malformed input: every stored AccessRequest
\* carries service references of the form namespace/name, ports that are numbers,
\* and (external) a valid IP or CIDR, and so does every ExternalAccess.
C18_NoObjectFromMalformedInput ==
    /\ \A r \in requests :
        /\ getOverridePorts(r.ports)
        /\ r.type = "Service" => Len(r.source) = 2 /\ Len(r.target) = 2
        /\ r.type = "External" => Len(r.service) = 2 /\ ValidCidr(r.cidr)
    /\ \A e \in extaccesses : ValidCidr(e.cidr)

\* a submitAccessRequest given a port that is not a number just stored its
\* AccessRequest and reported success
C18_Witness ==
    /\ last.cmd = "submitAccessRequest"
    /\ last.log = <<"success">>
    /\ \E id \in last.ids : \E r \in RequestsOf(id) : ~getOverridePorts(r.ports)

\* C19: whatever commands and reconcile passes run, every original Service (one
\* that is no clone) is still there, unchanged, and every other Service is a clone
\* that names the original it was made from and carries a correlation id.
C19_OriginalsUntouched ==
    /\ \A o \in Originals : NewService(o[1], o[2], NoLabel, "") \in services
    /\ \A c \in services :
        c.origin # "" =>
            /\ c.reqid \in usedIds
            /\ \E o \in Originals : c.origin = Ref(o[1], o[2]) /\ c.ns = o[1]
                                     /\ c.name # o[2]

\* the finalizer cascade just deleted the clones of a grant whose Access Declaration
\* was deleted; the original Services are there
C19_Witness ==
    /\ last.cmd = "reconcile"
    /\ \E id \in IdPool :
        /\ {"fullOk", "declDeleted"} \subseteq hist[id]
        /\ ClonesOf(id) = {}
    /\ \A o \in Originals : At(services, o[1], o[2]) # {}

\* C20: once the process that ran a creation sequence stopped in the middle of it
\* and the reconciler has nothing left to do, every Service clone of the sequence's
\* correlation id is deleted or has an Access or ExternalAccess declaration of the
\* same id (nobody having deleted a declaration of that id meanwhile).
C20_NoCloneWithoutOwner ==
    \A id \in IdPool :
        (Converged /\ "crashed" \in hist[id] /\ "declDeleted" \notin hist[id]) =>
            (ClonesOf(id) = {} \/ DeclarationsOf(id) # {})

\* a creation sequence stopped after its clones were made and before any Access
\* Declaration was: the reconciler has nothing to do and the clones are there
C20_Witness ==
    \E id \in IdPool :
        /\ Converged
        /\ "crashed" \in hist[id]
        /\ "declDeleted" \notin hist[id]
        /\ Cardinality(ClonesOf(id)) = 2
        /\ DeclarationsOf(id) = {}

\* C21: a pass over a deleting Access or ExternalAccess that holds the cleanup
\* finalizer removes the finalizer only when no Service clone carries the
\* declaration's correlation id any more; when the delete of a clone fails, the pass
\* returns an error and the declaration keeps its finalizer.
C21_FinalizerHeldUntilClonesGone ==
    \A kind \in {"acc", "ext"} : \A obj \in Store[kind] :
        (obj.del /\ obj.fin) =>
            \A fault \in ReconcileFaults :
                LET res == reconcileAccessFinalizer(Store, kind, obj, fault)
                IN  /\ obj \notin res.st[kind] => Labelled(res.st.svc, obj.reqid) = {}
                    /\ (fault = "svcdelete" /\ Labelled(services, obj.reqid) # {}) =>
                          (res.err /\ obj \in res.st[kind])

\* a pass whose Service delete failed just returned without error: the declaration
\* it released is gone and the clone of its correlation id is still there
C21_Witness ==
    /\ last.cmd = "reconcile"
    /\ ~Failed(last.log)
    /\ "cloneDeleteFailed" \in last.notes
    /\ \E id \in IdPool :
        /\ "extOk" \in hist[id]
        /\ DeclarationsOf(id) = {}
        /\ ClonesOf(id) # {}

\* C22: every stored AccessRequest in status PendingFull that is not being deleted
\* has no Service clone, no Access and no ExternalAccess carrying its request id
\* (commands run to completion here, so no approval is ever in progress).
C22_PendingFullHasNothing ==
    \A r \in requests :
        (r.status = "PendingFull" /\ ~r.del) =>
            ClonesOf(r.requestID) = {} /\ DeclarationsOf(r.requestID) = {}

\* the approval of a PendingFull request built the whole grant and could not delete
\* the request: the reconciler has nothing left to do, the request is still stored
\* as PendingFull, next to both clones and both Access Declarations
C22_Witness ==
    /\ Converged
    /\ \E r \in requests :
        /\ r.status = "PendingFull" /\ ~r.del /\ r.type = "Service"
        /\ "approveDeleteFailed" \in hist[r.requestID]
        /\ "declDeleted" \notin hist[r.requestID]
        /\ Namespaces(ClonesOf(r.requestID)) = {r.source[1], r.target[1]}
        /\ Namespaces(Labelled(accesses, r.requestID)) = {r.source[1], r.target[1]}

\* the spec of an AccessRequest: everything but its finalizers and its deletion mark
RequestSpec(r) == [r EXCEPT !.fin = FALSE, !.del = FALSE]

\* C23: no step changes the spec of an AccessRequest that stays stored (status,
\* request id, clone names, parameters); its finalizer changes only in a reconcile
\* pass, and a deletion mark, once set, stays.
C23_RequestSpecImmutable ==
    [][ \A r \in requests : \A r2 \in requests' :
          r2.name = r.name =>
            /\ RequestSpec(r2) = RequestSpec(r)
            /\ r2.fin # r.fin => last'.cmd = "reconcile"
            /\ r.del => r2.del ]_vars

\* a reconcile pass just updated a partial request in place, adding its finalizer;
\* the request keeps the status and the clone name it was stored with
C23_Witness ==
    /\ last.cmd = "reconcile"
    /\ \E r \in requests :
        /\ r.fin /\ ~r.del
        /\ r.status = "PendingTarget"
        /\ r.sourceCloneName = PartialCloneName(r.source[2], r.requestID)
        /\ "submitted" \in hist[r.requestID]

\* both sessions ran their approval to its report, and the two ran at the same time
BothApprovalsOver ==
    \A p \in Approvers : approvals[p].pc \in {"done", "failed"} /\ approvals[p].overlapped

\* C24: once two approvals of one PendingFull service request that ran at the same
\* time have both reported and the reconciler has nothing left to do, the objects
\* carrying the request id are two clones and two Access Declarations, or none at
\* all; and when one of the approvals reported success, they are the two and two.
C24_ConcurrentApprovalsConsistent ==
    (BothApprovalsOver /\ Converged) =>
        \A p \in Approvers :
            LET r == approvals[p].r
                id == r.requestID
                complete == /\ Cardinality(ClonesOf(id)) = 2
                            /\ Cardinality(Labelled(accesses, id)) = 2
                nothing == ClonesOf(id) = {} /\ DeclarationsOf(id) = {}
            IN  (r.status = "PendingFull" /\ r.type = "Service") =>
                    /\ complete \/ nothing
                    /\ approvals[p].pc = "done" => complete

\* two approvals of one PendingFull service request ran at the same time, one
\* failed and rolled back, the other reported success; the reconciler is done, both
\* Access Declarations of the successful one are there and no clone is
C24_Witness ==
    /\ BothApprovalsOver
    /\ Converged
    /\ \E p, q \in Approvers :
        /\ approvals[p].pc = "done" /\ approvals[q].pc = "failed"
        /\ approvals[p].r.name = approvals[q].r.name
        /\ approvals[p].r.status = "PendingFull" /\ approvals[p].r.type = "Service"
        /\ Cardinality({ a \in Labelled(accesses, approvals[p].r.requestID) : ~a.del }) = 2
        /\ ClonesOf(approvals[p].r.requestID) = {}

\* C25: whenever the reconciler has nothing left to do (commands run to completion
\* here), every Access and ExternalAccess that is not being deleted, and of whose
\* correlation id nobody deleted a declaration, has at least one Service clone
\* carrying that id.
C25_NoDeclarationWithoutClone ==
    Converged =>
        \A d \in accesses \cup extaccesses :
            (~d.del /\ "declDeleted" \notin hist[d.reqid]) => ClonesOf(d.reqid) # {}

\* a partial request was approved and nothing was revoked or denied: the reconciler
\* is done, cleaning up after the deleted request took the first side's Access
\* Declaration and every clone, and the approved side's Access Declaration is left
C25_Witness ==
    /\ Converged
    /\ \E id \in IdPool :
        /\ "partialApproved" \in hist[id]
        /\ hist[id] \cap {"declDeleted", "deniedPartial", "revoked",
                           "approveDeleteFailed"} = {}
        /\ \E a \in Labelled(accesses, id) : ~a.del
        /\ ClonesOf(id) = {}

\* C26: an approveAccessRequest that fails, its compensating deletes succeeding,
\* leaves every Service, Access, ExternalAccess and AccessRequest as they were (the
\* request stored, with its status; nothing of the attempt left); and the approval
\* of a stored request, were its status none of the three, fails the same way.
C26_FailedApprovalChangesNothing ==
    /\ [][ (last'.cmd = "approveAccessRequest" /\ Failed(last'.log)
               /\ "rollbackFailed" \notin last'.notes)
            => UNCHANGED <<services, accesses, extaccesses, requests>> ]_vars
    /\ [](\A r \in requests : \A plan \in FaultPlans \cup ShortFaultPlans :
            LET res == approveRequest(Store, [r EXCEPT !.status = "Approved"], plan)
            IN  ~res.ok /\ res.st = Store)

\* the approval of a PendingFull request just failed past its first clone and took
\* back what it had created: the request is stored as before and nothing carries
\* its id
C26_Witness ==
    /\ last.cmd = "approveAccessRequest"
    /\ last.log = <<"error">>
    /\ "rollbackFailed" \notin last.notes
    /\ \E id \in last.ids :
        /\ "fullFailed" \in hist[id]
        /\ \E r \in RequestsOf(id) : r.status = "PendingFull" /\ ~r.del
        /\ ClonesOf(id) = {} /\ DeclarationsOf(id) = {}

\* C27: a pass over a deleting partial AccessRequest that holds the request
\* finalizer releases the request only when the delete of the Access Declaration it
\* owns succeeded or found nothing, and then returns no error; when that delete
\* fails, the pass returns an error and changes nothing; either way it makes neither
\* the lookup nor the delete of the orphan check.
C27_ReleaseAfterPartialCleanup ==
    \A r \in requests :
        (r.del /\ r.fin /\ IsPartial(r.status)) =>
            \A fault \in ReconcileFaults :
                LET res == reconcileAccessRequest(Store, r, fault)
                    own == OwnedClone(r)
                IN  /\ fault = "delete" => (res.err /\ res.st = Store)
                    /\ r \in res.st.req <=> res.err
                    /\ r \notin res.st.req =>
                          /\ At(res.st.req, r.ns, r.name) = {}
                          /\ \A a \in At(res.st.acc, own.ns, AccessName(own.name)) : a.del
                    /\ fault = "get" => res = reconcileAccessRequest(Store, r, "none")

\* a pass just cleaned up after an approved partial request that was being deleted:
\* the request is gone and the Access Declaration it owned is marked for deletion
C27_Witness ==
    /\ last.cmd = "reconcile"
    /\ ~Failed(last.log)
    /\ "partialCleanup" \in last.notes
    /\ \E id \in IdPool :
        /\ "partialApproved" \in hist[id]
        /\ RequestsOf(id) = {}
        /\ \E a \in Labelled(accesses, id) : a.del

\* C28: a pass over a deleting Access or ExternalAccess whose Update, removing the
\* cleanup finalizer, finds the object already gone returns no error (so it is not
\* requeued), and the object is not there afterwards.
C28_GoneOnReleaseIsSuccess ==
    /\ "alreadyGone" \in last.notes => ~Failed(last.log)
    /\ \A kind \in {"acc", "ext"} : \A obj \in Store[kind] :
          (obj.del /\ obj.fin) =>
              LET res == reconcileAccessFinalizer(Store, kind, obj, "gone")
              IN  ~res.err /\ obj \notin res.st[kind]

\* a pass over a revoked Access Declaration just found it gone when it removed the
\* finalizer, and returned without error
C28_Witness ==
    /\ last.cmd = "reconcile"
    /\ "alreadyGone" \in last.notes
    /\ last.log = <<>>
    /\ \E id \in IdPool :
        /\ {"fullOk", "declDeleted"} \subseteq hist[id]
        /\ Cardinality(Labelled(accesses, id)) < 2

\* C29: whenever an Update or a List the reconciler makes fails with an error
\* other than not-found, an error is returned to the scheduler: a reconcile pass
\* whose outcome the failure changes returns an error, and so does the mapping of an
\* Access event whose List failed.
C29_ErrorsReachScheduler ==
    /\ \A key \in Keys : \A fault \in {"update", "list"} :
          LET res == ReconcilePass(Store, key, fault)
          IN  res # ReconcilePass(Store, key, "none") => res.err
    /\ (last.cmd = "mapAccessToAccessRequest" /\ "listFailed" \in last.notes) =>
          Failed(last.log)

\* the List of the mapping function just failed for the Access of a stored partial
\* request: the failure went to the server log, no error was returned and the
\* request was not enqueued
C29_Witness ==
    /\ last.cmd = "mapAccessToAccessRequest"
    /\ "listFailed" \in last.notes
    /\ "enqueued" \notin last.notes
    /\ last.log = <<"logError">>
    /\ \E id \in last.ids : \E r \in RequestsOf(id) : IsPartial(r.status)

\* the faults that hit a write call: Update, Delete, the Delete of a Service clone
WriteFaults == {"update", "delete", "svcdelete"}

\* a pass over key makes no write call: no failing write changes what it returns,
\* and it leaves the cluster as it is
NoWrite(st, key) ==
    /\ ReconcilePass(st, key, "none").st = st
    /\ \A f \in WriteFaults : ReconcilePass(st, key, f) = ReconcilePass(st, key, "none")

\* the keys of the stored objects, and the key of an object that is not there
PassKeys == Keys \cup {[ns |-> "team-a", name |-> "access-none"]}

\* C30 as stated: a second pass over the same key, nothing else having changed the
\* cluster, returns no error and makes no write call, whatever the object and its
\* state.
C30_SecondPassWritesNothing ==
    \A key \in PassKeys :
        LET p1 == ReconcilePass(Store, key, "none")
        IN  ~ReconcilePass(p1.st, key, "none").err /\ NoWrite(p1.st, key)

\* C30: passes over the same key, nothing else changing the cluster, return no
\* error; the second makes no write call, except over a partial AccessRequest that
\* was orphaned: there the first pass issues the delete, the second cleans up and
\* releases the request, and the third makes no write call.
C30_FixedPointWithinTwoPasses ==
    \A key \in PassKeys :
        LET p1 == ReconcilePass(Store, key, "none")
            p2 == ReconcilePass(p1.st, key, "none")
            orphan == \E r \in At(requests, key.ns, key.name) : Orphaned(r)
        IN  /\ ~p1.err /\ ~p2.err
            /\ ~orphan => NoWrite(p1.st, key)
            /\ NoWrite(p2.st, key)

\* a pass has just run, and a further pass over the Access Declaration and over the
\* AccessRequest that hold their finalizers would make no write call
C30_Witness ==
    /\ last.cmd = "reconcile"
    /\ \E a \in accesses : a.fin /\ ~a.del /\ NoWrite(Store, KeyOf(a))
    /\ \E r \in requests : r.fin /\ ~r.del /\ NoWrite(Store, KeyOf(r))

\* the rows of the last answer that show this Access as status
RowsOf(a, status) ==
    { row \in last.rows : row.type = "Service" /\ row.name = a.name /\ row.ns = a.ns
                          /\ row.status = status }

\* C31: in an answer of GetActiveAccesses whose lists succeeded, a service Access
\* Declaration is shown as Active exactly when 2 Service clones carry its
\* correlation id, as Pending exactly when 1 does, and is not shown for any other
\* count; the answer is a 200 in every case.
C31_StatusByCloneCount ==
    (last.cmd = "GetActiveAccesses" /\ "listFailed" \notin last.notes) =>
        /\ last.verdict = "200"
        /\ \A a \in accesses :
            LET n == Cardinality(Labelled(services, a.reqid))
            IN  /\ RowsOf(a, "Active") # {} <=> n = 2
                /\ RowsOf(a, "Pending") # {} <=> n = 1
                /\ n \notin {1, 2} => RowsOf(a, "Active") \cup RowsOf(a, "Pending") = {}

\* the view was just computed, every list succeeding, over a completed grant: two
\* Access Declarations and two clones share the correlation id, and the answer has
\* one row for it, Active, that shows one of the two declarations
C31_Witness ==
    /\ last.cmd = "GetActiveAccesses"
    /\ "listFailed" \notin last.notes
    /\ \E id \in IdPool :
        /\ Cardinality(Labelled(accesses, id)) = 2
        /\ Cardinality(ClonesOf(id)) = 2
        /\ Cardinality({ row \in last.rows : row.reqid = id }) = 1
        /\ \E a \in Labelled(accesses, id) :
              RowsOf(a, "Active") # {} /\ \A b \in Labelled(accesses, id) \ {a} :
                                            RowsOf(b, "Active") = {}

\* the objects of a kind ("svc", "acc", "ext") that are in st2 and not in st1
Created(st1, st2, kind) == st2[kind] \ st1[kind]

\* C32: every Service clone, Access and ExternalAccess that an approveAccessRequest
\* creates carries the request id stored in the AccessRequest it approves, whatever
\* the status of the request (PendingFull, PendingTarget, PendingSource) and wherever
\* the sequence stops; and the command draws no new id.
C32_ApprovalKeepsRequestId ==
    /\ [][ last'.cmd = "approveAccessRequest" =>
             /\ usedIds' = usedIds
             /\ \A kind \in {"svc", "acc", "ext"} :
                   \A o \in Created(Store, Store', kind) : o.reqid \in last'.ids ]_vars
    /\ [](\A r \in requests : \A plan \in ApprovePlans(r) :
            \A kind \in {"svc", "acc", "ext"} :
                \A o \in Created(Store, approveRequest(Store, r, plan).st, kind) :
                    o.reqid = r.requestID)

\* an approval just succeeded and left two clones and two Access Declarations
\* under the id the request was submitted with, and no other id was drawn
C32_Witness ==
    /\ last.cmd = "approveAccessRequest"
    /\ ~Failed(last.log)
    /\ \E id \in last.ids :
        /\ "submitted" \in hist[id]
        /\ usedIds = {id}
        /\ Cardinality(ClonesOf(id)) = 2
        /\ Cardinality(Labelled(accesses, id)) = 2

\* C33: a call of CanPerformAllActions none of whose member checks is denied
\* returns true exactly when every member check is allowed, and returns an error,
\* not false, when at least one member check failed to be evaluated.
C33_ErrorNotFoldedIntoFalse ==
    (last.cmd = "CanPerformAllActions"
        /\ \A i \in DOMAIN last.checks : last.checks[i] # "deny") =>
        /\ last.verdict = "true" <=> \A i \in DOMAIN last.checks : last.checks[i] = "allow"
        /\ (\E i \in DOMAIN last.checks : last.checks[i] = "error") => last.verdict = "error"
        /\ last.verdict # "false"

\* a call with several member checks just returned an error: one member check was
\* allowed, another could not be evaluated, none was denied
C33_Witness ==
    /\ last.cmd = "CanPerformAllActions"
    /\ last.verdict = "error"
    /\ Len(last.checks) >= 2
    /\ \E i, j \in DOMAIN last.checks :
          last.checks[i] = "allow" /\ last.checks[j] = "error"
    /\ \A i \in DOMAIN last.checks : last.checks[i] # "deny"

\* the correlation ids of the objects stored under a key
IdsUnder(key) ==
    { r.requestID : r \in At(requests, key.ns, key.name) }
    \cup { a.reqid : a \in At(accesses, key.ns, key.name) }
    \cup { e.reqid : e \in At(extaccesses, key.ns, key.name) }

\* C34: what a command or a reconcile pass does for one grant touches no Service
\* clone, Access or ExternalAccess of another: every object a command deletes or
\* marks for deletion carries a correlation id the command acts under, and every
\* object a pass over a key deletes or marks carries the id of the object under
\* that key.
C34_NoCrossTalk ==
    /\ [][ last'.cmd # "reconcile" =>
             \A kind \in {"svc", "acc", "ext"} :
                 \A o \in Created(Store', Store, kind) : o.reqid \in last'.ids ]_vars
    /\ [](\A key \in Keys : \A fault \in PassFaults(Store, key) :
            \A kind \in {"svc", "acc", "ext"} :
                \A o \in Created(ReconcilePass(Store, key, fault).st, Store, kind) :
                    o.reqid \in IdsUnder(key))

\* a denyAccessRequest for one request just ran, and the Access Declaration of the
\* other request, which nobody asked to delete, is gone or marked for deletion
\* while that request is stored
C34_Witness ==
    /\ last.cmd = "denyAccessRequest"
    /\ \E a \in last.ids : \E b \in usedIds \ {a} :
        /\ "declDeleted" \in hist[a]
        /\ "declDeleted" \notin hist[b]
        /\ \E r \in RequestsOf(b) :
              /\ IsPartial(r.status) /\ ~r.del
              /\ \A d \in At(accesses, OwnedClone(r).ns, AccessName(OwnedClone(r).name)) :
                    d.del

\* C35: two requests with different correlation ids that clone the same original
\* Service get different clone names: the suffixes derived from two different ids
\* that uuid.New() returned differ, and so do the clone names of each form.
C35_DistinctCloneNames ==
    \A id1 \in usedIds : \A id2 \in usedIds \ {id1} :
        /\ randSuffix(id1) # randSuffix(id2)
        /\ \A o \in Originals :
              /\ HashedCloneName(o[2], id1) # HashedCloneName(o[2], id2)
              /\ PartialCloneName(o[2], id1) # PartialCloneName(o[2], id2)
              /\ LongCloneName(o[2], id1) # LongCloneName(o[2], id2)

\* a second request for the same service was just refused its clone: the clone of
\* the first request, under another correlation id, holds the name
C35_Witness ==
    /\ last.cmd = "submitAccessRequest"
    /\ Failed(last.log)
    /\ \E a \in usedIds : \E b \in last.ids \ {a} :
        /\ "submitted" \in hist[a]
        /\ "submitAborted" \in hist[b]
        /\ ClonesOf(b) = {}
        /\ \E c \in ClonesOf(a) : \E o \in Originals :
              c.ns = o[1] /\ c.name = PartialCloneName(o[2], b)

\* the duration of a declaration as the claim has it: none for 0, "<d>s" for d > 0
ExpectedDuration(d) == IF d = 0 THEN "" ELSE Itoa(d) \o "s"

\* C36: on every path that creates an Access Declaration, a duration of 0 gives a
\* declaration without duration and a duration d > 0 gives "<d>s": the declarations
\* stored under the id of a stored request, those any approval of a stored request
\* creates, and those a direct grant creates, for either duration.
C36_DurationRendering ==
    /\ \A r \in requests : \A a \in DeclarationsOf(r.requestID) :
          a.duration = ExpectedDuration(r.duration)
    /\ \A r \in requests : \A plan \in ApprovePlans(r) : \A kind \in {"acc", "ext"} :
          \A o \in Created(Store, approveRequest(Store, r, plan).st, kind) :
              o.duration = ExpectedDuration(r.duration)
    /\ \A id \in FreshIds : \A d \in DurationPayloads.durs :
          LET none == [at |-> "none", rb |-> FALSE]
              full == createClusterAccess(Store, SvcA, SvcB, id, "ingress", d, none)
              ext == ExternalGrant(Store, SvcA, id, "ingress", d, "10.0.0.0/8", none)
          IN  /\ \A o \in Created(Store, full.st, "acc") : o.duration = ExpectedDuration(d)
              /\ \A o \in Created(Store, ext.st, "ext") : o.duration = ExpectedDuration(d)

\* a request without duration was submitted by a user allowed on one side: the
\* partial Access Declaration created at submission is stored with the duration "0s"
C36_Witness ==
    /\ last.cmd = "submitAccessRequest"
    /\ ~Failed(last.log)
    /\ \E r \in requests :
        /\ r.duration = 0 /\ IsPartial(r.status)
        /\ r.requestID \in last.ids
        /\ \E a \in Labelled(accesses, r.requestID) : a.duration = "0s"

\* C37: when submitAccessRequest created the partial clone and Access Declaration
\* and then failed to create the AccessRequest, they are removed: once the command
\* has returned and the reconciler has nothing left to do, nothing carries the
\* correlation id of the failed submission.
C37_NoPartialGrantWithoutRequest ==
    \A id \in DOMAIN hist :
        ("submitFailed" \in hist[id] /\ RequestsOf(id) = {} /\ Converged) =>
            ClonesOf(id) = {} /\ DeclarationsOf(id) = {}

\* a submission failed at the creation of its AccessRequest; the reconciler has since
\* put its finalizer on the partial Access Declaration and has nothing left to do:
\* the clone and the declaration are there, and no AccessRequest tracks them
C37_Witness ==
    /\ Converged
    /\ last.cmd = "reconcile"
    /\ \E id \in DOMAIN hist :
        /\ "submitFailed" \in hist[id]
        /\ RequestsOf(id) = {}
        /\ Cardinality(ClonesOf(id)) = 1
        /\ \E a \in Labelled(accesses, id) : a.fin /\ ~a.del

\* C38: a requestClusterAccess command runs the creation sequence at most once: it
\* reports exactly one terminal outcome, generated at most one correlation id, and
\* when the outcome is a failure nothing the command created is left under its ids.
C38_OneSequencePerCommand ==
    last.cmd = "requestClusterAccess" =>
        /\ Len(last.log) = 1
        /\ Cardinality(last.ids) <= 1
        /\ Failed(last.log) =>
               \A id \in last.ids : ClonesOf(id) = {} /\ DeclarationsOf(id) = {}

\* a requestClusterAccess reported a success and then an error: its first sequence
\* left a complete grant under one id, its second one failed under another id
C38_Witness ==
    /\ last.cmd = "requestClusterAccess"
    /\ last.log = <<"success", "error">>
    /\ Cardinality(last.ids) = 2
    /\ \E id \in last.ids :
        /\ Cardinality(ClonesOf(id)) = 2
        /\ Cardinality(DeclarationsOf(id)) = 2

\* the rows of the answer that stand for the listed request r
AnswerRowsOf(r) ==
    { i \in DOMAIN listing.pendingRequests : listing.pendingRequests[i].requestID = r.name }

\* the answer 200 has exactly one row per listed request, and the row of a request
\* whose permission lookup failed is there with canSelfApprove = false
OneRowPerListedRequest ==
    listing.pc = "done" =>
        /\ last.cmd = "GetPendingRequests" => last.verdict = "200"
        /\ Len(listing.pendingRequests) = Cardinality(listing.items)
        /\ \A r \in listing.items :
            /\ Cardinality(AnswerRowsOf(r)) = 1
            /\ \A i \in AnswerRowsOf(r) :
                /\ listing.pendingRequests[i].status = r.status
                /\ listing.workers[r.name].verdict # "true" =>
                       ~listing.pendingRequests[i].canSelfApprove

\* a worker that has its row to send finds room in the results channel
NoWorkerBlocks ==
    \A n \in DOMAIN listing.workers :
        (listing.pc = "wait" /\ listing.workers[n].pc = "send") =>
            Len(listing.resultsChan) < ResultsCapacity(listing.items)

\* C39: for every interleaving of the per-row permission lookups GetPendingRequests
\* answers with exactly one row per listed AccessRequest; a failed lookup gives its
\* row canSelfApprove = false and neither drops the row nor fails the listing; no
\* worker blocks on the results channel, and a query whose list succeeded answers.
C39_OneRowPerRequest ==
    /\ [](OneRowPerListedRequest /\ NoWorkerBlocks)
    /\ [][ (listing.pc \in {"wait", "drain"} /\ listing'.pc \notin {"wait", "drain"})
              => (listing'.pc = "done" /\ last'.verdict = "200") ]_vars
    /\ (listing.pc = "wait") ~> (listing.pc = "done")

\* a query over two requests has answered: the lookup failed for one row, which is
\* there with canSelfApprove = false, and the other row says true
C39_Witness ==
    /\ listing.pc = "done"
    /\ Cardinality(listing.items) = 2
    /\ \E r1, r2 \in listing.items :
        /\ listing.workers[r1.name].verdict = "error"
        /\ listing.workers[r2.name].verdict = "true"
        /\ \E i, j \in DOMAIN listing.pendingRequests :
            /\ i < j
            /\ listing.pendingRequests[i] = PendingRow(r1, FALSE)
            /\ listing.pendingRequests[j] = PendingRow(r2, TRUE)

\* C40: the target shown for a pending access is the remote side's original
\* "namespace/name": stripping the clone prefix and the id-derived suffix from the
\* stored target clone name gives back the service name the clone name was built
\* from, for every service name and request id.
C40_StripInvertsCloneName ==
    last.cmd = "pendingTarget" =>
        last.verdict = Ref(last.checks[1], last.checks[2]) \o " (Pending Approval)"

\* the pending target of a service whose name holds, before its last part, the
\* suffix of the request id: the name shown has lost that part of the name and
\* kept the suffix the clone name ends with
C40_Witness ==
    /\ last.cmd = "pendingTarget"
    /\ last.checks[2] = "db-61316232-svc1"
    /\ last.ids = {UUIDs[1]}
    /\ last.verdict = "team-b/db-svc1-61316232 (Pending Approval)"

----------------------------------------------------------------------------

\* direct grants and their revocation
NextGrants(P) ==
    \/ handleRequestClusterAccess(P)
    \/ handleRequestExternalAccess(P)
    \/ handleRevokeClusterAccess
    \/ handleRevokeExternalAccess
    \/ DeleteDeclaration
    \/ Reconcile

SpecGrants == Init /\ [][NextGrants(NarrowPayloads)]_vars

\* the review workflow, next to the direct cluster grant
NextRequests(P) ==
    \/ handleRequestClusterAccess(P)
    \/ handleSubmitAccessRequest(P)
    \/ handleApproveAccessRequest
    \/ handleDenyAccessRequest
    \/ DeleteDeclaration
    \/ Reconcile

SpecRequests == Init /\ [][NextRequests(NarrowPayloads)]_vars

\* the ways a service-to-service grant is completed, under every direction
NextDirections(P) ==
    \/ handleRequestClusterAccess(P)
    \/ handleSubmitAccessRequest(P)
    \/ handleApproveAccessRequest

SpecDirections == Init /\ [][NextDirections(WidePayloads)]_vars

\* creation sequences that stop half-way, and what follows them
NextCrash(P) ==
    \/ CrashDuringGrant(P)
    \/ handleRequestExternalAccess(P)
    \/ handleRevokeClusterAccess
    \/ DeleteDeclaration
    \/ Reconcile

SpecCrash == Init /\ [][NextCrash(NarrowPayloads)]_vars

\* the review workflow under the reconciler's watches
NextWatch(P) ==
    \/ handleSubmitAccessRequest(P)
    \/ handleApproveAccessRequest
    \/ AccessEvent
    \/ Reconcile

SpecWatch == Init /\ [][NextWatch(NarrowPayloads)]_vars

\* approvals that run call by call, next to each other and to the reconciler
NextRace(P) ==
    \/ handleSubmitAccessRequest(P)
    \/ \E p \in Approvers : BeginApproval(p)
    \/ \E p \in Approvers : ApprovalCreateStep(p)
    \/ \E p \in Approvers : ApprovalRollbackStep(p)
    \/ \E p \in Approvers : ApprovalFinishStep(p)
    \/ Reconcile

SpecRace == Init /\ [][NextRace(NarrowPayloads)]_vars

\* the active-access view over the review workflow and the reconciler
NextView(P) ==
    \/ handleSubmitAccessRequest(P)
    \/ handleApproveAccessRequest
    \/ Reconcile
    \/ CopyClone
    \/ GetActiveAccesses

SpecView == Init /\ [][NextView(NarrowPayloads)]_vars

\* two review requests for the same services whose uuids collide
NextCollide(P) ==
    \/ SubmitForServices(P)
    \/ handleDenyAccessRequest
    \/ DeleteDeclaration
    \/ Reconcile

SpecCollide == InitCollide /\ [][NextCollide(NarrowPayloads)]_vars

\* the same ways, with and without a duration
SpecDurations == Init /\ [][NextDirections(DurationPayloads)]_vars

\* the naming of a pending target and its display, over the Service names
NextNames == ShowPendingTarget

SpecNames == Init /\ [][NextNames]_vars

\* the pending-requests query, its workers step by step, next to submissions.
\* The Go scheduler runs every goroutine that can run: a step of the query that
\* stays possible is taken.
NextListing(P) ==
    \/ handleSubmitAccessRequest(P)
    \/ SubmitForServices(P)
    \/ GetPendingRequests
    \/ \E n \in DOMAIN listing.workers : PendingLookup(n)
    \/ \E n \in DOMAIN listing.workers : PendingSend(n)
    \/ PendingWait
    \/ PendingRespond

SpecListing == Init /\ [][NextListing(NarrowPayloads)]_vars /\ WF_vars(PendingSteps)

\* the Permission Oracle on its own
NextOracle == CheckPermissions

SpecOracle == Init /\ [][NextOracle]_vars

====
